---- MODULE Spec2Model ----
(***************************************************************************)
(* A model of the Skald Python SDK client (skald_sdk/client.py).           *)
(*                                                                         *)
(* Bytes are integers 0..255, text is a sequence of Unicode code points.   *)
(* The streamed calls (streamed_chat, streamed_generate_doc) are async     *)
(* generators: a step of the model runs the generator from one suspension  *)
(* point (awaiting the response, awaiting the next chunk, a yield) to the  *)
(* next one.                                                               *)
(***************************************************************************)
EXTENDS Integers, Sequences, FiniteSets, TLC

\* F(e), with e evaluated once.
With(e, F(_)) == CHOOSE r \in { F(v) : v \in {e} } : TRUE

(***************************************************************************)
(* Text: str operations of the decoder loop.                               *)
(***************************************************************************)

\* "\n", the separator of buffer.split("\n")
NL == 10

\* Characters str.strip() removes: those for which str.isspace() is true.
Whitespace ==
  {9, 10, 11, 12, 13, 28, 29, 30, 31, 32, 133, 160, 5760} \cup (8192..8202)
    \cup {8232, 8233, 8239, 8287, 12288}

\* s.startswith(p)
StartsWith(s, p) == Len(s) >= Len(p) /\ SubSeq(s, 1, Len(p)) = p

\* Index of the first non-whitespace character at or after i (Len(s)+1 if none).
RECURSIVE SkipLeft(_, _)
SkipLeft(s, i) ==
  IF i > Len(s) \/ s[i] \notin Whitespace THEN i ELSE SkipLeft(s, i + 1)

\* Index of the last non-whitespace character at or before j (0 if none).
RECURSIVE SkipRight(_, _)
SkipRight(s, j) ==
  IF j < 1 \/ s[j] \notin Whitespace THEN j ELSE SkipRight(s, j - 1)

\* A faulty variant of Strip: the end of the line is trimmed, its start is
\* not (rstrip for strip).
Strip_RightOnly(s) == SubSeq(s, 1, SkipRight(s, Len(s)))

\* line.strip()
Strip(s) == SubSeq(s, SkipLeft(s, 1), SkipRight(s, Len(s)))

\* Index of the first "\n" at or after i (0 if none).
RECURSIVE FindNL(_, _)
FindNL(s, i) ==
  IF i > Len(s) THEN 0 ELSE IF s[i] = NL THEN i ELSE FindNL(s, i + 1)

\* s[i:].split("\n"): always at least one element, the last one being the
\* text after the last newline.
RECURSIVE SplitFrom(_, _)
SplitFrom(s, i) ==
  With(FindNL(s, i), LAMBDA n :
    IF n = 0 THEN << SubSeq(s, i, Len(s)) >>
    ELSE << SubSeq(s, i, n - 1) >> \o SplitFrom(s, n + 1))

\* buffer.split("\n")
Split(s) == SplitFrom(s, 1)

(***************************************************************************)
(* bytes.decode("utf-8"): strict decoding of well-formed UTF-8 (Unicode    *)
(* table 3-7); anything else raises UnicodeDecodeError.                    *)
(***************************************************************************)

Cont(b, i, lo, hi) == i <= Len(b) /\ b[i] >= lo /\ b[i] <= hi

\* Number of bytes of the well-formed sequence starting at b[i], 0 if none.
Utf8Len(b, i) ==
  LET c == b[i]
  IN  IF c <= 127 THEN 1
      ELSE IF c >= 194 /\ c <= 223
        THEN IF Cont(b, i + 1, 128, 191) THEN 2 ELSE 0
      ELSE IF c = 224
        THEN IF Cont(b, i + 1, 160, 191) /\ Cont(b, i + 2, 128, 191) THEN 3 ELSE 0
      ELSE IF c = 237
        THEN IF Cont(b, i + 1, 128, 159) /\ Cont(b, i + 2, 128, 191) THEN 3 ELSE 0
      ELSE IF c >= 225 /\ c <= 239
        THEN IF Cont(b, i + 1, 128, 191) /\ Cont(b, i + 2, 128, 191) THEN 3 ELSE 0
      ELSE IF c = 240
        THEN IF Cont(b, i + 1, 144, 191) /\ Cont(b, i + 2, 128, 191)
                  /\ Cont(b, i + 3, 128, 191) THEN 4 ELSE 0
      ELSE IF c >= 241 /\ c <= 243
        THEN IF Cont(b, i + 1, 128, 191) /\ Cont(b, i + 2, 128, 191)
                  /\ Cont(b, i + 3, 128, 191) THEN 4 ELSE 0
      ELSE IF c = 244
        THEN IF Cont(b, i + 1, 128, 143) /\ Cont(b, i + 2, 128, 191)
                  /\ Cont(b, i + 3, 128, 191) THEN 4 ELSE 0
      ELSE 0

\* Code point of the well-formed sequence of k bytes starting at b[i].
Utf8CodePoint(b, i, k) ==
  CASE k = 1 -> b[i]
    [] k = 2 -> (b[i] - 192) * 64 + (b[i + 1] - 128)
    [] k = 3 -> (b[i] - 224) * 4096 + (b[i + 1] - 128) * 64 + (b[i + 2] - 128)
    [] k = 4 -> (b[i] - 240) * 262144 + (b[i + 1] - 128) * 4096
                  + (b[i + 2] - 128) * 64 + (b[i + 3] - 128)

\* The code points of b[lo..hi] decoded one character after the other; -1
\* marks the place where the bytes are not well-formed.
RECURSIVE Utf8Chars(_, _, _)
Utf8Chars(b, lo, hi) ==
  IF lo > hi THEN << >>
  ELSE With(Utf8Len(b, lo), LAMBDA k :
         IF k = 0 \/ lo + k - 1 > hi THEN <<-1>>
         ELSE <<Utf8CodePoint(b, lo, k)>> \o Utf8Chars(b, lo + k, hi))

IsContinuation(c) == c >= 128 /\ c <= 191

\* The same for a long range, decoded in two halves: the cut is before the
\* last byte at or before the middle that starts a character (a decoder that
\* reaches the middle reaches that byte); four continuation bytes in a row
\* occur in no well-formed text.
RECURSIVE Utf8Range(_, _, _)
Utf8Range(b, lo, hi) ==
  IF hi - lo < 8 THEN Utf8Chars(b, lo, hi)
  ELSE With((lo + hi) \div 2, LAMBDA mid :
         IF ~IsContinuation(b[mid]) THEN Utf8Range(b, lo, mid - 1) \o Utf8Range(b, mid, hi)
         ELSE IF ~IsContinuation(b[mid - 1])
           THEN Utf8Range(b, lo, mid - 2) \o Utf8Range(b, mid - 1, hi)
         ELSE IF ~IsContinuation(b[mid - 2])
           THEN Utf8Range(b, lo, mid - 3) \o Utf8Range(b, mid - 2, hi)
         ELSE IF ~IsContinuation(b[mid - 3])
           THEN Utf8Range(b, lo, mid - 4) \o Utf8Range(b, mid - 3, hi)
         ELSE <<-1>>)

\* chunk.decode("utf-8"): ok = FALSE stands for UnicodeDecodeError.
Utf8Decode(b) ==
  With(Utf8Range(b, 1, Len(b)), LAMBDA t :
    IF \E i \in 1..Len(t) : t[i] < 0 THEN [ok |-> FALSE, text |-> << >>]
    ELSE [ok |-> TRUE, text |-> t])

\* Number of bytes of the ill-formed sequence starting at b[i] that one
\* U+FFFD replaces: the lead byte and the continuation bytes that fit it.
Utf8BadLen(b, i) ==
  LET c == b[i]
      lo == IF c = 224 THEN 160 ELSE IF c = 240 THEN 144 ELSE 128
      hi == IF c = 237 THEN 159 ELSE IF c = 244 THEN 143 ELSE 191
  IN  IF c >= 224 /\ c <= 244 /\ Cont(b, i + 1, lo, hi)
      THEN IF c >= 240 /\ Cont(b, i + 2, 128, 191) THEN 3 ELSE 2
      ELSE 1

\* b[i..].decode("utf-8", errors="replace")
RECURSIVE Utf8ReplaceFrom(_, _)
Utf8ReplaceFrom(b, i) ==
  IF i > Len(b) THEN << >>
  ELSE With(Utf8Len(b, i), LAMBDA k :
         IF k > 0 THEN <<Utf8CodePoint(b, i, k)>> \o Utf8ReplaceFrom(b, i + k)
         ELSE <<65533>> \o Utf8ReplaceFrom(b, i + Utf8BadLen(b, i)))

\* response.text (httpx): the content decoded as UTF-8, the encoding of a
\* response that declares none, with errors="replace".
ResponseText(b) == Utf8ReplaceFrom(b, 1)

\* chr(cp).encode("utf-8"): ok = FALSE stands for UnicodeEncodeError (a
\* surrogate).
Utf8Encode(cp) ==
  IF cp < 128 THEN [ok |-> TRUE, bytes |-> <<cp>>]
  ELSE IF cp < 2048
    THEN [ok |-> TRUE, bytes |-> <<192 + (cp \div 64), 128 + (cp % 64)>>]
  ELSE IF cp >= 55296 /\ cp <= 57343 THEN [ok |-> FALSE, bytes |-> << >>]
  ELSE IF cp < 65536
    THEN [ok |-> TRUE,
          bytes |-> <<224 + (cp \div 4096), 128 + ((cp \div 64) % 64), 128 + (cp % 64)>>]
  ELSE [ok |-> TRUE,
        bytes |-> <<240 + (cp \div 262144), 128 + ((cp \div 4096) % 64),
                    128 + ((cp \div 64) % 64), 128 + (cp % 64)>>]

(***************************************************************************)
(* urllib.parse.quote(memo_id, safe="")                                    *)
(***************************************************************************)

\* A faulty variant of Unreserved: "/" is left as it is too (quote with its
\* default safe="/").
Unreserved_Slash == (65..90) \cup (97..122) \cup (48..57) \cup {95, 46, 45, 126, 47}

\* A faulty variant of Unreserved: the reserved characters of a URL are left
\* as they are too (an encoding that is safe for a whole URL, not for one
\* segment of it).
Unreserved_WholeUrl ==
  (65..90) \cup (97..122) \cup (48..57) \cup {95, 46, 45, 126}
    \cup {33, 35, 36, 38, 39, 40, 41, 42, 43, 44, 47, 58, 59, 61, 63, 64, 91, 93}

\* The bytes quote() never escapes: letters, digits and "_.-~".
Unreserved == (65..90) \cup (97..122) \cup (48..57) \cup {95, 46, 45, 126}

\* One hexadecimal digit, upper case.
HexDigit(n) == IF n < 10 THEN 48 + n ELSE 55 + n

\* "%XX" for every byte that is not unreserved.
RECURSIVE QuoteBytes(_)
QuoteBytes(b) ==
  IF b = << >> THEN << >>
  ELSE (IF Head(b) \in Unreserved THEN <<Head(b)>>
        ELSE <<37, HexDigit(Head(b) \div 16), HexDigit(Head(b) % 16)>>)
       \o QuoteBytes(Tail(b))

\* quote(s, safe=""): the characters encoded as UTF-8, byte by byte.
RECURSIVE Quote(_)
Quote(s) ==
  IF s = << >> THEN [ok |-> TRUE, text |-> << >>]
  ELSE With(Utf8Encode(Head(s)), LAMBDA e :
         IF ~e.ok THEN [ok |-> FALSE, text |-> << >>]
         ELSE With(Quote(Tail(s)), LAMBDA r :
                IF ~r.ok THEN r
                ELSE [ok |-> TRUE, text |-> QuoteBytes(e.bytes) \o r.text]))

(***************************************************************************)
(* json.loads(json_str) on a str: the grammar of the standard decoder      *)
(* (whitespace " \t\n\r", strict strings, the literals null, true, false    *)
(* and the non-standard NaN, Infinity, -Infinity it accepts by default).   *)
(* A value is described by what the decoder loop reads of it: its kind,    *)
(* and for an object what .get("type") returns.                            *)
(***************************************************************************)

JsonWs == {32, 9, 10, 13}

IsDigit(c) == c >= 48 /\ c <= 57

RECURSIVE SkipWs(_, _)
SkipWs(s, i) == IF i > Len(s) \/ s[i] \notin JsonWs THEN i ELSE SkipWs(s, i + 1)

RECURSIVE DigitsEnd(_, _)
DigitsEnd(s, i) == IF i > Len(s) \/ ~IsDigit(s[i]) THEN i ELSE DigitsEnd(s, i + 1)

\* s[i:].startswith(p)
StartsWithAt(s, i, p) ==
  i + Len(p) - 1 <= Len(s) /\ SubSeq(s, i, i + Len(p) - 1) = p

\* NUMBER_RE = (-?(?:0|[1-9]\d*))(\.\d+)?([eE][-+]?\d+)? matched at s[i]:
\* the index after the match, 0 if there is none.
NumberEnd(s, i) ==
  LET j == IF s[i] = 45 THEN i + 1 ELSE i
      int == IF j > Len(s) THEN 0
             ELSE IF s[j] = 48 THEN j + 1
             ELSE IF IsDigit(s[j]) THEN DigitsEnd(s, j + 1)
             ELSE 0
      frac == IF int <= Len(s) /\ s[int] = 46 /\ int + 1 <= Len(s) /\ IsDigit(s[int + 1])
              THEN DigitsEnd(s, int + 1) ELSE int
      sign == IF frac + 1 <= Len(s) /\ s[frac + 1] \in {43, 45} THEN frac + 2 ELSE frac + 1
      exp == IF frac <= Len(s) /\ s[frac] \in {69, 101} /\ sign <= Len(s) /\ IsDigit(s[sign])
             THEN DigitsEnd(s, sign) ELSE frac
  IN  IF int = 0 THEN 0 ELSE exp

HexVal(c) ==
  IF IsDigit(c) THEN c - 48
  ELSE IF c >= 65 /\ c <= 70 THEN c - 55
  ELSE IF c >= 97 /\ c <= 102 THEN c - 87
  ELSE -1

\* The four hex digits of a \uXXXX escape at s[i..i+3], -1 if they are not.
Hex4(s, i) ==
  IF i + 3 > Len(s) \/ \E k \in 0..3 : HexVal(s[i + k]) < 0 THEN -1
  ELSE HexVal(s[i]) * 4096 + HexVal(s[i + 1]) * 256 + HexVal(s[i + 2]) * 16 + HexVal(s[i + 3])

\* The character a one-letter escape stands for, -1 if it is no escape.
Unescape(c) ==
  CASE c = 34 -> 34 [] c = 92 -> 92 [] c = 47 -> 47 [] c = 98 -> 8 [] c = 102 -> 12
    [] c = 110 -> 10 [] c = 114 -> 13 [] c = 116 -> 9 [] OTHER -> -1

\* scanstring(s, i, strict=True), i being the index after the opening quote:
\* end is the index after the closing quote (0: JSONDecodeError), val the string.
RECURSIVE ScanString(_, _, _)
ScanString(s, i, acc) ==
  IF i > Len(s) THEN [end |-> 0, val |-> << >>]
  ELSE IF s[i] = 34 THEN [end |-> i + 1, val |-> acc]
  ELSE IF s[i] < 32 THEN [end |-> 0, val |-> << >>]
  ELSE IF s[i] # 92 THEN ScanString(s, i + 1, Append(acc, s[i]))
  ELSE IF i + 1 > Len(s) THEN [end |-> 0, val |-> << >>]
  ELSE IF s[i + 1] # 117
    THEN IF Unescape(s[i + 1]) < 0 THEN [end |-> 0, val |-> << >>]
         ELSE ScanString(s, i + 2, Append(acc, Unescape(s[i + 1])))
  ELSE LET u == Hex4(s, i + 2)
           lo == IF StartsWithAt(s, i + 6, <<92, 117>>) THEN Hex4(s, i + 8) ELSE -1
       IN  IF u < 0 THEN [end |-> 0, val |-> << >>]
           ELSE IF u >= 55296 /\ u <= 56319 /\ lo >= 56320 /\ lo <= 57343
             THEN ScanString(s, i + 12,
                             Append(acc, 65536 + (u - 55296) * 1024 + (lo - 56320)))
           ELSE ScanString(s, i + 6, Append(acc, u))

\* "type"
KeyType == <<116, 121, 112, 101>>

JsonFail == [end |-> 0, kind |-> "invalid", str |-> << >>, tkind |-> "absent", type |-> << >>]

JsonAtom(e, k) == [end |-> e, kind |-> k, str |-> << >>, tkind |-> "absent", type |-> << >>]

RECURSIVE ParseValue(_, _)
RECURSIVE ParseMembers(_, _, _, _)
RECURSIVE ParseElements(_, _)

\* JSONObject: the members from the key whose opening quote is s[j]; tk and t
\* are what the pairs read so far give for "type" (a later pair overrides).
ParseMembers(s, j, tk, t) ==
  With(ScanString(s, j + 1, << >>), LAMBDA key :
  With(SkipWs(s, key.end), LAMBDA c :
    IF key.end = 0 \/ c > Len(s) \/ s[c] # 58 THEN JsonFail
    ELSE
  With(ParseValue(s, SkipWs(s, c + 1)), LAMBDA v :
  With(SkipWs(s, v.end), LAMBDA e :
    LET isType == key.val = KeyType
        tk2 == IF ~isType THEN tk ELSE IF v.kind = "string" THEN "string" ELSE "other"
        t2 == IF ~isType THEN t ELSE v.str
        n == SkipWs(s, e + 1)
    IN  IF v.end = 0 \/ e > Len(s) THEN JsonFail
        ELSE IF s[e] = 125
          THEN [end |-> e + 1, kind |-> "object", str |-> << >>, tkind |-> tk2, type |-> t2]
        ELSE IF s[e] = 44 /\ n <= Len(s) /\ s[n] = 34 THEN ParseMembers(s, n, tk2, t2)
        ELSE JsonFail))))

\* JSONArray: the elements from s[j].
ParseElements(s, j) ==
  With(ParseValue(s, j), LAMBDA v :
  With(SkipWs(s, v.end), LAMBDA e :
    IF v.end = 0 \/ e > Len(s) THEN JsonFail
    ELSE IF s[e] = 93 THEN JsonAtom(e + 1, "array")
    ELSE IF s[e] = 44 THEN ParseElements(s, SkipWs(s, e + 1))
    ELSE JsonFail))

\* scan_once(s, i)
ParseValue(s, i) ==
  IF i > Len(s) THEN JsonFail
  ELSE IF s[i] = 34
    THEN With(ScanString(s, i + 1, << >>), LAMBDA r :
           IF r.end = 0 THEN JsonFail
           ELSE [end |-> r.end, kind |-> "string", str |-> r.val,
                 tkind |-> "absent", type |-> << >>])
  ELSE IF s[i] = 123
    THEN With(SkipWs(s, i + 1), LAMBDA j :
           IF j > Len(s) THEN JsonFail
           ELSE IF s[j] = 125 THEN JsonAtom(j + 1, "object")
           ELSE IF s[j] = 34 THEN ParseMembers(s, j, "absent", << >>)
           ELSE JsonFail)
  ELSE IF s[i] = 91
    THEN With(SkipWs(s, i + 1), LAMBDA j :
           IF j > Len(s) THEN JsonFail
           ELSE IF s[j] = 93 THEN JsonAtom(j + 1, "array")
           ELSE ParseElements(s, j))
  ELSE IF StartsWithAt(s, i, <<110, 117, 108, 108>>) THEN JsonAtom(i + 4, "null")
  ELSE IF StartsWithAt(s, i, <<116, 114, 117, 101>>) THEN JsonAtom(i + 4, "bool")
  ELSE IF StartsWithAt(s, i, <<102, 97, 108, 115, 101>>) THEN JsonAtom(i + 5, "bool")
  ELSE IF NumberEnd(s, i) # 0 THEN JsonAtom(NumberEnd(s, i), "number")
  ELSE IF StartsWithAt(s, i, <<78, 97, 78>>) THEN JsonAtom(i + 3, "number")
  ELSE IF StartsWithAt(s, i, <<73, 110, 102, 105, 110, 105, 116, 121>>)
    THEN JsonAtom(i + 8, "number")
  ELSE IF StartsWithAt(s, i, <<45, 73, 110, 102, 105, 110, 105, 116, 121>>)
    THEN JsonAtom(i + 9, "number")
  ELSE JsonFail

\* json.loads(s): ok = FALSE stands for json.JSONDecodeError; otherwise value
\* is the decoded value: its kind, what .get("type") gives when it is an
\* object (tkind "absent": None), and the text it was decoded from.
JsonLoads(s) ==
  With(ParseValue(s, SkipWs(s, 1)), LAMBDA v :
    IF v.end = 0 \/ SkipWs(s, v.end) # Len(s) + 1
    THEN [ok |-> FALSE,
          value |-> [kind |-> "invalid", tkind |-> "absent", type |-> << >>, text |-> s]]
    ELSE [ok |-> TRUE,
          value |-> [kind |-> v.kind, tkind |-> v.tkind, type |-> v.type, text |-> s]])

(***************************************************************************)
(* The decoder loop of streamed_chat and streamed_generate_doc.            *)
(***************************************************************************)

\* ": ping"
PingPrefix == <<58, 32, 112, 105, 110, 103>>

\* "data: "
DataPrefix == <<100, 97, 116, 97, 58, 32>>

\* "done"
TypeDone == <<100, 111, 110, 101>>

\* "token"
TypeToken == <<116, 111, 107, 101, 110>>

\* A faulty variant of IncompleteLine: the buffer is emptied after every
\* chunk, so the start of a line cut by a chunk boundary is lost.
IncompleteLine_Dropped(ls) == << >>

\* A faulty variant of IncompleteLine: the first piece is kept in the buffer
\* in the place of the last (lines.pop(0) for lines.pop()).
IncompleteLine_First(ls) == ls[1]

\* buffer = lines.pop(): the incomplete line kept in the buffer ...
IncompleteLine(ls) == ls[Len(ls)]

\* A faulty variant of CompleteLines: the incomplete line is kept in the
\* buffer and left among the lines too (lines[-1] for lines.pop()).
CompleteLines_All(ls) == ls

\* ... and the complete lines left in lines.
CompleteLines(ls) == SubSeq(ls, 1, Len(ls) - 1)

\* if not line: continue
IsBlank(s) == s = << >>

\* if line.startswith(": ping"): continue
IsPing(s) == StartsWith(s, PingPrefix)

\* if line.startswith("data: ")
IsData(s) == StartsWith(s, DataPrefix)

\* json_str = line[6:]
Payload(s) == SubSeq(s, 7, Len(s))

NoEvent == [kind |-> "none", tkind |-> "absent", type |-> << >>, text |-> << >>]

\* A faulty variant of Classify: a data frame is looked for anywhere in the
\* line, not at its start, so that a comment quoting a frame yields it.
Classify_DataAnywhere(line) ==
  With(Strip(line), LAMBDA s :
    IF \E i \in 1..Len(s) : StartsWithAt(s, i, DataPrefix)
    THEN With(CHOOSE i \in 1..Len(s) : StartsWithAt(s, i, DataPrefix), LAMBDA i :
           With(JsonLoads(SubSeq(s, i + 6, Len(s))), LAMBDA r :
             IF r.ok THEN [yield |-> TRUE, event |-> r.value]
             ELSE [yield |-> FALSE, event |-> NoEvent]))
    ELSE [yield |-> FALSE, event |-> NoEvent])

\* A faulty variant of Classify: a data frame needs no space after "data:",
\* its payload is what follows the colon.
Classify_LooseData(line) ==
  With(Strip(line), LAMBDA s :
    IF IsBlank(s) THEN [yield |-> FALSE, event |-> NoEvent]
    ELSE IF IsPing(s) THEN [yield |-> FALSE, event |-> NoEvent]
    ELSE IF StartsWith(s, <<100, 97, 116, 97, 58>>)
      THEN With(JsonLoads(SubSeq(s, 6, Len(s))), LAMBDA r :
             IF r.ok THEN [yield |-> TRUE, event |-> r.value]
             ELSE [yield |-> FALSE, event |-> NoEvent])
    ELSE [yield |-> FALSE, event |-> NoEvent])

\* One pass of the body of "for line in lines" up to its yield: whether the
\* line yields an event, and the event.
Classify(line) ==
  With(Strip(line), LAMBDA s :
    IF IsBlank(s) THEN [yield |-> FALSE, event |-> NoEvent]
    ELSE IF IsPing(s) THEN [yield |-> FALSE, event |-> NoEvent]
    ELSE IF IsData(s)
      THEN With(JsonLoads(Payload(s)), LAMBDA r :
             IF r.ok THEN [yield |-> TRUE, event |-> r.value]
             ELSE [yield |-> FALSE, event |-> NoEvent])
    ELSE [yield |-> FALSE, event |-> NoEvent])

\* A faulty variant of NextYield: a line that yields nothing ends the loop
\* over the lines of the chunk (break for continue).
NextYield_Break(ls) ==
  IF ls = << >> THEN [yield |-> FALSE, event |-> NoEvent, rest |-> << >>]
  ELSE With(Classify(Head(ls)), LAMBDA r :
         IF r.yield THEN [yield |-> TRUE, event |-> r.event, rest |-> Tail(ls)]
         ELSE [yield |-> FALSE, event |-> NoEvent, rest |-> << >>])

\* The loop over the lines from its current position to the next yield: the
\* event yielded and the lines left, or no yield when the lines run out.
RECURSIVE NextYield(_)
NextYield(ls) ==
  IF ls = << >> THEN [yield |-> FALSE, event |-> NoEvent, rest |-> << >>]
  ELSE With(Classify(Head(ls)), LAMBDA r :
         IF r.yield THEN [yield |-> TRUE, event |-> r.event, rest |-> Tail(ls)]
         ELSE NextYield(Tail(ls)))

\* event.get("type") raises AttributeError unless the event is a dict.
HasGet(event) == event.kind = "object"

\* A faulty variant of IsDone: the type is compared with "end".
IsDone_WrongName(event) == event.tkind = "string" /\ event.type = <<101, 110, 100>>

\* event.get("type") == "done"
IsDone(event) == event.tkind = "string" /\ event.type = TypeDone

\* A faulty variant of IsSuccess: only the statuses from 500 on are errors.
IsSuccess_Below500(status) == status < 500

\* response.is_success (httpx: a 2xx status)
IsSuccess(status) == status >= 200 /\ status <= 299

(***************************************************************************)
(* State.  Each call c has its own frame; a streamed call is a generator.  *)
(***************************************************************************)

CallIds == {1, 2}

VARIABLES
  op,        \* op[c]: the method of the client that call c is a call of
  args,      \* args[c]: the arguments of the call
  pc,        \* pc[c]: where call c is suspended, or how it ended
  endpoint,  \* endpoint[c]: the endpoint the call sends its request to
  status,    \* status[c]: status code of the initiating response (0: none yet)
  wire,      \* wire[c]: the bytes of the response body, as the server sends them
  pos,       \* pos[c]: how many of them aiter_bytes() has handed to the loop
  aligned,   \* aligned[c]: every chunk so far ended between two characters
  buffer,    \* buffer[c]: the local variable buffer
  lines,     \* lines[c]: the lines of the current chunk the for loop has yet to visit
  events,    \* events[c]: the events yielded to the consumer, in order
  error,     \* error[c]: the exception the call raised, if any
  conn,      \* conn[c]: the response of client.stream(): "none", "open", "closed"
  result,    \* result[c]: what a call that is no generator returned
  requests   \* the requests handed to the transport, in order

vars == <<op, args, pc, endpoint, status, wire, pos, aligned, buffer, lines, events, error,
          conn, result, requests>>

NoError == [kind |-> "none", message |-> << >>]

NoResult == [kind |-> "none", tkind |-> "absent", type |-> << >>, text |-> << >>]

Init ==
  /\ op = [c \in CallIds |-> "none"]
  /\ args = [c \in CallIds |-> << >>]
  /\ pc = [c \in CallIds |-> "idle"]
  /\ endpoint = [c \in CallIds |-> << >>]
  /\ status = [c \in CallIds |-> 0]
  /\ wire = [c \in CallIds |-> << >>]
  /\ pos = [c \in CallIds |-> 0]
  /\ aligned = [c \in CallIds |-> TRUE]
  /\ buffer = [c \in CallIds |-> << >>]
  /\ lines = [c \in CallIds |-> << >>]
  /\ events = [c \in CallIds |-> << >>]
  /\ error = [c \in CallIds |-> NoError]
  /\ conn = [c \in CallIds |-> "none"]
  /\ result = [c \in CallIds |-> NoResult]
  /\ requests = << >>

(***************************************************************************)
(* Request building.                                                       *)
(***************************************************************************)

\* self._base_url: "https://api.useskald.com", the default, without trailing slash
BaseUrl ==
  <<104, 116, 116, 112, 115, 58, 47, 47, 97, 112, 105, 46, 117, 115, 101, 115,
    107, 97, 108, 100, 46, 99, 111, 109>>

\* "/api/v1/chat"
ChatPath == <<47, 97, 112, 105, 47, 118, 49, 47, 99, 104, 97, 116>>

\* "/api/v1/generate"
GeneratePath ==
  <<47, 97, 112, 105, 47, 118, 49, 47, 103, 101, 110, 101, 114, 97, 116, 101>>

\* The decimal digits of n >= 0, as "{response.status_code}" formats them.
RECURSIVE Decimal(_)
Decimal(n) == IF n < 10 THEN <<48 + n>> ELSE Append(Decimal(n \div 10), 48 + (n % 10))

\* f"Skald API error ({status_code}): {error_text}"
ApiErrorMessage(st, text) ==
  <<83, 107, 97, 108, 100, 32, 65, 80, 73, 32, 101, 114, 114, 111, 114, 32, 40>>
    \o Decimal(st) \o <<41, 58, 32>> \o text

\* The dict d after d[key] = value
DictSet(d, key, value) ==
  [k \in DOMAIN d \cup {key} |-> IF k = key THEN value ELSE d[k]]

\* A faulty variant of DictCopy: data is the dict of the caller itself
\* (data = params for data = dict(params)).
DictCopy_Alias(d) == [caller |-> d, data |-> d, shared |-> TRUE]

\* data = dict(params): the dict of the caller and data, a new dict with the
\* same items (shared: data and the dict of the caller are one object).
DictCopy(d) == [caller |-> d, data |-> d, shared |-> FALSE]

\* data[key] = value: written to data, and so to the dict of the caller if
\* the two are one object.
SetItem(f, key, value) ==
  [caller |-> IF f.shared THEN DictSet(f.caller, key, value) ELSE f.caller,
   data |-> DictSet(f.data, key, value),
   shared |-> f.shared]

\* data = dict(params); data["stream"] = flag
StreamData(params, flag) == SetItem(DictCopy(params), "stream", flag)

\* data["stream"] = True of the streamed calls
StreamedBody(params) == StreamData(params, TRUE).data

Raised(kind, message) == [kind |-> kind, message |-> message]

(***************************************************************************)
(* get_memo, update_memo, delete_memo and _request.                        *)
(***************************************************************************)

\* "memo_uuid"
MemoUuid == <<109, 101, 109, 111, 95, 117, 117, 105, 100>>

\* "reference_id"
ReferenceId == <<114, 101, 102, 101, 114, 101, 110, 99, 101, 95, 105, 100>>

\* A faulty variant of ValidIdType: the id_type is not validated.
ValidIdType_Any(id_type) == TRUE

\* id_type in ("memo_uuid", "reference_id")
ValidIdType(id_type) == id_type \in {MemoUuid, ReferenceId}

\* f"Invalid id_type: {id_type}"
InvalidIdTypeMessage(id_type) ==
  <<73, 110, 118, 97, 108, 105, 100, 32, 105, 100, 95, 116, 121, 112, 101, 58, 32>>
    \o id_type

\* "/api/v1/memo/"
MemoPath == <<47, 97, 112, 105, 47, 118, 49, 47, 109, 101, 109, 111, 47>>

\* "?id_type="
IdTypeQuery == <<63, 105, 100, 95, 116, 121, 112, 101, 61>>

\* A faulty variant of MemoEndpoint: the query is appended for every id_type.
MemoEndpoint_AlwaysQuery(encoded_id, id_type) ==
  MemoPath \o encoded_id \o IdTypeQuery \o id_type

\* endpoint = f"/api/v1/memo/{encoded_id}", and "?id_type={id_type}" appended
\* unless id_type is "memo_uuid"
MemoEndpoint(encoded_id, id_type) ==
  MemoPath \o encoded_id \o (IF id_type # MemoUuid THEN IdTypeQuery \o id_type ELSE << >>)

\* The body of get_memo, update_memo and delete_memo up to the request: the
\* id_type is validated, the memo id quoted, the endpoint built, and _request
\* hands the request to the transport.  data is the update data of the
\* caller (none for get_memo and delete_memo), body the json of the request.
MemoCall(c, name, method, memo_id, id_type, data, hasBody, body) ==
  /\ pc[c] = "idle"
  /\ op' = [op EXCEPT ![c] = name]
  /\ args' = [args EXCEPT ![c] = [memo_id |-> memo_id, id_type |-> id_type,
                                   data |-> data]]
  /\ IF ~ValidIdType(id_type)
     THEN /\ pc' = [pc EXCEPT ![c] = "raised"]
          /\ error' = [error EXCEPT ![c] =
                         Raised("ValueError", InvalidIdTypeMessage(id_type))]
          /\ UNCHANGED <<endpoint, requests>>
     ELSE \E q \in {Quote(memo_id)} :
          IF ~q.ok
          THEN /\ pc' = [pc EXCEPT ![c] = "raised"]
               /\ error' = [error EXCEPT ![c] = Raised("UnicodeEncodeError", << >>)]
               /\ UNCHANGED <<endpoint, requests>>
          ELSE /\ endpoint' = [endpoint EXCEPT ![c] = MemoEndpoint(q.text, id_type)]
               /\ requests' = Append(requests,
                                [call |-> c, method |-> method,
                                 url |-> BaseUrl \o MemoEndpoint(q.text, id_type),
                                 hasBody |-> hasBody, body |-> body])
               /\ pc' = [pc EXCEPT ![c] = "awaitReply"]
               /\ UNCHANGED error
  /\ UNCHANGED <<status, wire, pos, aligned, buffer, lines, events, conn, result>>

get_memo(c, memo_id, id_type) ==
  MemoCall(c, "get_memo", "GET", memo_id, id_type, << >>, FALSE, << >>)

\* A faulty variant of update_memo: the body is completed as the body of
\* create_memo is, with an empty "metadata" if the update data has none.
update_memo_Defaulted(c, memo_id, update_data, id_type) ==
  MemoCall(c, "update_memo", "PATCH", memo_id, id_type, update_data, TRUE,
           IF "metadata" \in DOMAIN update_data THEN update_data
           ELSE DictSet(update_data, "metadata", << >>))

update_memo(c, memo_id, update_data, id_type) ==
  MemoCall(c, "update_memo", "PATCH", memo_id, id_type, update_data, TRUE, update_data)

delete_memo(c, memo_id, id_type) ==
  MemoCall(c, "delete_memo", "DELETE", memo_id, id_type, << >>, FALSE, << >>)

(***************************************************************************)
(* create_memo, list_memos, search, chat, generate_doc.  A dict is a       *)
(* function of its keys, a str the sequence of its characters, a bool a    *)
(* boolean.                                                                *)
(***************************************************************************)

\* "/api/v1/memo"
MemosPath == <<47, 97, 112, 105, 47, 118, 49, 47, 109, 101, 109, 111>>

\* "/api/v1/search"
SearchPath == <<47, 97, 112, 105, 47, 118, 49, 47, 115, 101, 97, 114, 99, 104>>

\* The body of an operation from its arguments to the request of _request:
\* url = f"{self._base_url}{endpoint}" and
\* self._client.request(method, url, json=json_data).
Request(c, name, callArgs, method, path, hasBody, body) ==
  /\ pc[c] = "idle"
  /\ op' = [op EXCEPT ![c] = name]
  /\ args' = [args EXCEPT ![c] = callArgs]
  /\ endpoint' = [endpoint EXCEPT ![c] = path]
  /\ requests' = Append(requests, [call |-> c, method |-> method, url |-> BaseUrl \o path,
                                   hasBody |-> hasBody, body |-> body])
  /\ pc' = [pc EXCEPT ![c] = "awaitReply"]
  /\ UNCHANGED <<status, wire, pos, aligned, buffer, lines, events, error, conn, result>>

\* A faulty variant of CreateBody: the metadata is always the empty dict.
CreateBody_Reset(memo_data) == DictSet(memo_data, "metadata", << >>)

\* data = dict(memo_data); if "metadata" not in data: data["metadata"] = {}
CreateData(memo_data) ==
  With(DictCopy(memo_data), LAMBDA f :
    IF "metadata" \in DOMAIN f.data THEN f ELSE SetItem(f, "metadata", << >>))

\* The json of the request of create_memo.
CreateBody(memo_data) == CreateData(memo_data).data

create_memo(c, memo_data) ==
  Request(c, "create_memo",
          [memo_data |-> memo_data, after |-> CreateData(memo_data).caller],
          "POST", MemosPath, TRUE, CreateBody(memo_data))

\* params = params or {}: None and the empty dict give a new empty dict.
OrEmpty(params) == IF params.given THEN params.value ELSE << >>

\* params.get(key, default)
DictGet(d, key, default) == IF key \in DOMAIN d THEN d[key] ELSE default

\* f"{n}" of an int
FormatInt(n) == IF n < 0 THEN <<45>> \o Decimal(0 - n) ELSE Decimal(n)

\* A faulty variant of ListEndpoint: the defaults are used unless the caller
\* gives both values.
ListEndpoint_AllOrNothing(params) ==
  LET both == DOMAIN OrEmpty(params) = {"page", "page_size"}
  IN  MemosPath \o <<63, 112, 97, 103, 101, 61>>
        \o FormatInt(IF both THEN OrEmpty(params)["page"] ELSE 1)
        \o <<38, 112, 97, 103, 101, 95, 115, 105, 122, 101, 61>>
        \o FormatInt(IF both THEN OrEmpty(params)["page_size"] ELSE 20)

\* page = params.get("page", 1); page_size = params.get("page_size", 20);
\* endpoint = f"/api/v1/memo?page={page}&page_size={page_size}"
ListEndpoint(params) ==
  MemosPath \o <<63, 112, 97, 103, 101, 61>> \o FormatInt(DictGet(OrEmpty(params), "page", 1))
    \o <<38, 112, 97, 103, 101, 95, 115, 105, 122, 101, 61>>
    \o FormatInt(DictGet(OrEmpty(params), "page_size", 20))

list_memos(c, params) ==
  Request(c, "list_memos", [params |-> params], "GET", ListEndpoint(params), FALSE, << >>)

search(c, search_params) ==
  Request(c, "search", [params |-> search_params], "POST", SearchPath, TRUE, search_params)

\* A faulty variant of UnstreamedBody: the stream flag is set only if the
\* caller gives none.
UnstreamedBody_KeepsCallers(params) ==
  IF "stream" \in DOMAIN params THEN params ELSE DictSet(params, "stream", FALSE)

\* data = dict(params); data["stream"] = False
UnstreamedBody(params) == StreamData(params, FALSE).data

chat(c, chat_params) ==
  Request(c, "chat",
          [params |-> chat_params, after |-> StreamData(chat_params, FALSE).caller], "POST", ChatPath, TRUE,
          UnstreamedBody(chat_params))

generate_doc(c, generate_params) ==
  Request(c, "generate_doc",
          [params |-> generate_params, after |-> StreamData(generate_params, FALSE).caller],
          "POST", GeneratePath, TRUE,
          UnstreamedBody(generate_params))

\* response.json(): json.loads of the content, which it decodes itself (as
\* UTF-8, for content that starts with no byte order mark and no zero byte).
ResponseJson(body) ==
  With(Utf8Decode(body), LAMBDA d :
    IF ~d.ok THEN [ok |-> FALSE, kind |-> "UnicodeDecodeError", value |-> NoResult]
    ELSE With(JsonLoads(d.text), LAMBDA r :
           IF r.ok THEN [ok |-> TRUE, kind |-> "none", value |-> r.value]
           ELSE [ok |-> FALSE, kind |-> "JSONDecodeError", value |-> NoResult]))

\* The response to the request of _request arrives, with status st and the
\* given body: not a success, _request raises; a success, delete_memo
\* returns None and the others response.json().
Reply(c, st, body) ==
  /\ pc[c] = "awaitReply"
  /\ status' = [status EXCEPT ![c] = st]
  /\ wire' = [wire EXCEPT ![c] = body]
  /\ IF ~IsSuccess(st)
     THEN /\ pc' = [pc EXCEPT ![c] = "raised"]
          /\ error' = [error EXCEPT ![c] =
                         Raised("Exception", ApiErrorMessage(st, ResponseText(body)))]
          /\ UNCHANGED result
     ELSE IF op[c] = "delete_memo"
     THEN /\ pc' = [pc EXCEPT ![c] = "returned"]
          /\ result' = [result EXCEPT ![c] = [NoResult EXCEPT !.kind = "None"]]
          /\ UNCHANGED error
     ELSE \E r \in {ResponseJson(body)} :
          IF r.ok
          THEN /\ pc' = [pc EXCEPT ![c] = "returned"]
               /\ result' = [result EXCEPT ![c] = r.value]
               /\ UNCHANGED error
          ELSE /\ pc' = [pc EXCEPT ![c] = "raised"]
               /\ error' = [error EXCEPT ![c] = Raised(r.kind, << >>)]
               /\ UNCHANGED result
  /\ UNCHANGED <<op, args, endpoint, pos, aligned, buffer, lines, events, conn, requests>>

(***************************************************************************)
(* streamed_chat / streamed_generate_doc, one action per resumption of the *)
(* generator.                                                              *)
(***************************************************************************)

\* A faulty variant of Continue: the lines of the chunk that follow the one
\* that yields are given up, and the next resumption asks for the next chunk.
Continue_FirstOnly(c, ls) ==
  \E r \in {NextYield(ls)} :
      /\ lines' = [lines EXCEPT ![c] = << >>]
      /\ events' = [events EXCEPT ![c] = IF r.yield THEN Append(@, r.event) ELSE @]
      /\ pc' = [pc EXCEPT ![c] = IF r.yield THEN "yielded" ELSE "awaitChunk"]

\* The generator after a resumption inside the for loop: it runs to the next
\* yield, or runs out of lines and awaits the next chunk.
Continue(c, ls) ==
  \E r \in {NextYield(ls)} :
      /\ lines' = [lines EXCEPT ![c] = r.rest]
      /\ events' = [events EXCEPT ![c] = IF r.yield THEN Append(@, r.event) ELSE @]
      /\ pc' = [pc EXCEPT ![c] = IF r.yield THEN "yielded" ELSE "awaitChunk"]

\* First resumption: data = dict(params); data["stream"] = True, and
\* client.stream("POST", url, json=data) sends the request.
StreamedCall(c, path, params) ==
  /\ pc[c] = "idle"
  /\ op' = [op EXCEPT ![c] = IF path = ChatPath THEN "streamed_chat"
                              ELSE "streamed_generate_doc"]
  /\ args' = [args EXCEPT ![c] = [params |-> params,
                                   after |-> StreamData(params, TRUE).caller]]
  /\ endpoint' = [endpoint EXCEPT ![c] = path]
  /\ requests' = Append(requests, [call |-> c, method |-> "POST",
                                   url |-> BaseUrl \o path,
                                   hasBody |-> TRUE, body |-> StreamedBody(params)])
  /\ conn' = [conn EXCEPT ![c] = "open"]
  /\ pc' = [pc EXCEPT ![c] = "awaitResponse"]
  /\ UNCHANGED <<status, wire, pos, aligned, buffer, lines, events, error, result>>

\* A faulty variant of Respond: the buffer is not emptied when the loop
\* starts, it begins with what the other call of the client left in it.
Respond_StaleBuffer(c, st, body) ==
  /\ pc[c] = "awaitResponse"
  /\ status' = [status EXCEPT ![c] = st]
  /\ wire' = [wire EXCEPT ![c] = body]
  /\ IF IsSuccess(st)
     THEN /\ pc' = [pc EXCEPT ![c] = "awaitChunk"]
          /\ buffer' = [buffer EXCEPT ![c] = buffer[3 - c]]
          /\ UNCHANGED <<error, conn>>
     ELSE LET d == Utf8Decode(body)
          IN  /\ pc' = [pc EXCEPT ![c] = "raised"]
              /\ error' = [error EXCEPT ![c] =
                             IF d.ok THEN Raised("Exception", ApiErrorMessage(st, d.text))
                             ELSE Raised("UnicodeDecodeError", << >>)]
              /\ conn' = [conn EXCEPT ![c] = "closed"]
              /\ UNCHANGED buffer
  /\ UNCHANGED <<op, args, endpoint, pos, aligned, lines, events, result, requests>>

\* The initiating response arrives, with status st; body is what the server
\* sends after the headers.  Not a success: the body is read whole and the
\* call raises.  A success: buffer = "" and the loop asks for the first chunk.
Respond(c, st, body) ==
  /\ pc[c] = "awaitResponse"
  /\ status' = [status EXCEPT ![c] = st]
  /\ wire' = [wire EXCEPT ![c] = body]
  /\ IF IsSuccess(st)
     THEN /\ pc' = [pc EXCEPT ![c] = "awaitChunk"]
          /\ buffer' = [buffer EXCEPT ![c] = << >>]
          /\ UNCHANGED <<error, conn>>
     ELSE LET d == Utf8Decode(body)
          IN  /\ pc' = [pc EXCEPT ![c] = "raised"]
              /\ error' = [error EXCEPT ![c] =
                             IF d.ok THEN Raised("Exception", ApiErrorMessage(st, d.text))
                             ELSE Raised("UnicodeDecodeError", << >>)]
              /\ conn' = [conn EXCEPT ![c] = "closed"]
              /\ UNCHANGED buffer
  /\ UNCHANGED <<op, args, endpoint, pos, aligned, lines, events, result, requests>>

\* p is a position of the wire between two characters: the byte after it does
\* not continue a multi-byte sequence.
Boundary(w, p) == p = Len(w) \/ w[p + 1] < 128 \/ w[p + 1] > 191

\* A faulty variant of Chunk: the buffer is a field of the client, shared by
\* its calls (held here in the place of call 1), not a local of the call.
Chunk_SharedBuffer(c, n) ==
  /\ pc[c] = "awaitChunk"
  /\ n >= 1 /\ pos[c] + n <= Len(wire[c])
  /\ pos' = [pos EXCEPT ![c] = @ + n]
  /\ aligned' = [aligned EXCEPT ![c] = @ /\ Boundary(wire[c], pos[c] + n)]
  /\ \E d \in {Utf8Decode(SubSeq(wire[c], pos[c] + 1, pos[c] + n))} :
       IF d.ok
         THEN \E ls \in {Split(buffer[1] \o d.text)} :
              /\ buffer' = [buffer EXCEPT ![1] = IncompleteLine(ls)]
              /\ Continue(c, CompleteLines(ls))
              /\ UNCHANGED <<error, conn>>
         ELSE /\ pc' = [pc EXCEPT ![c] = "raised"]
              /\ error' = [error EXCEPT ![c] = Raised("UnicodeDecodeError", << >>)]
              /\ conn' = [conn EXCEPT ![c] = "closed"]
              /\ UNCHANGED <<buffer, lines, events>>
  /\ UNCHANGED <<op, args, endpoint, status, wire, result, requests>>

\* aiter_bytes() hands the loop the next chunk, of n bytes: it is decoded and
\* appended to the buffer, the buffer is split, the last piece kept, and the
\* for loop runs to its first yield.
Chunk(c, n) ==
  /\ pc[c] = "awaitChunk"
  /\ n >= 1 /\ pos[c] + n <= Len(wire[c])
  /\ pos' = [pos EXCEPT ![c] = @ + n]
  /\ aligned' = [aligned EXCEPT ![c] = @ /\ Boundary(wire[c], pos[c] + n)]
  /\ \E d \in {Utf8Decode(SubSeq(wire[c], pos[c] + 1, pos[c] + n))} :
       IF d.ok
         THEN \E ls \in {Split(buffer[c] \o d.text)} :
              /\ buffer' = [buffer EXCEPT ![c] = IncompleteLine(ls)]
              /\ Continue(c, CompleteLines(ls))
              /\ UNCHANGED <<error, conn>>
         ELSE /\ pc' = [pc EXCEPT ![c] = "raised"]
              /\ error' = [error EXCEPT ![c] = Raised("UnicodeDecodeError", << >>)]
              /\ conn' = [conn EXCEPT ![c] = "closed"]
              /\ UNCHANGED <<buffer, lines, events>>
  /\ UNCHANGED <<op, args, endpoint, status, wire, result, requests>>

\* A faulty variant of EndOfStream: a stream that ends without a done event
\* is reported as an error.
EndOfStream_Raises(c) ==
  /\ pc[c] = "awaitChunk"
  /\ pos[c] = Len(wire[c])
  /\ pc' = [pc EXCEPT ![c] = "raised"]
  /\ error' = [error EXCEPT ![c] = Raised("Exception", << >>)]
  /\ conn' = [conn EXCEPT ![c] = "closed"]
  /\ UNCHANGED <<op, args, endpoint, status, wire, pos, aligned, buffer, lines, events,
                 result, requests>>

\* A faulty variant of EndOfStream: what is left in the buffer is classified
\* as a last line before the generator returns.
EndOfStream_Flushes(c) ==
  /\ pc[c] = "awaitChunk"
  /\ pos[c] = Len(wire[c])
  /\ \E r \in {Classify(buffer[c])} :
       events' = [events EXCEPT ![c] = IF r.yield THEN Append(@, r.event) ELSE @]
  /\ pc' = [pc EXCEPT ![c] = "returned"]
  /\ conn' = [conn EXCEPT ![c] = "closed"]
  /\ UNCHANGED <<op, args, endpoint, status, wire, pos, aligned, buffer, lines,
                 error, result, requests>>

\* aiter_bytes() is exhausted: the async for ends and the generator returns.
EndOfStream(c) ==
  /\ pc[c] = "awaitChunk"
  /\ pos[c] = Len(wire[c])
  /\ pc' = [pc EXCEPT ![c] = "returned"]
  /\ conn' = [conn EXCEPT ![c] = "closed"]
  /\ UNCHANGED <<op, args, endpoint, status, wire, pos, aligned, buffer, lines, events,
                 error, result, requests>>

\* A faulty variant of Resume: streamed_generate_doc goes on after a done
\* event, streamed_chat returns.
Resume_GenerateIgnoresDone(c) ==
  /\ pc[c] = "yielded"
  /\ LET event == events[c][Len(events[c])]
     IN  IF ~HasGet(event)
         THEN /\ pc' = [pc EXCEPT ![c] = "raised"]
              /\ error' = [error EXCEPT ![c] = Raised("AttributeError", << >>)]
              /\ conn' = [conn EXCEPT ![c] = "closed"]
              /\ UNCHANGED <<lines, events>>
         ELSE IF IsDone(event) /\ op[c] # "streamed_generate_doc"
         THEN /\ pc' = [pc EXCEPT ![c] = "returned"]
              /\ conn' = [conn EXCEPT ![c] = "closed"]
              /\ UNCHANGED <<lines, events, error>>
         ELSE /\ Continue(c, lines[c])
              /\ UNCHANGED <<error, conn>>
  /\ UNCHANGED <<op, args, endpoint, status, wire, pos, aligned, buffer, result, requests>>

\* The consumer asks for the next event: the generator resumes after its
\* yield with event.get("type") == "done", which raises if the event has no
\* get, returns if the event is done, and otherwise goes on with the lines.
Resume(c) ==
  /\ pc[c] = "yielded"
  /\ LET event == events[c][Len(events[c])]
     IN  IF ~HasGet(event)
         THEN /\ pc' = [pc EXCEPT ![c] = "raised"]
              /\ error' = [error EXCEPT ![c] = Raised("AttributeError", << >>)]
              /\ conn' = [conn EXCEPT ![c] = "closed"]
              /\ UNCHANGED <<lines, events>>
         ELSE IF IsDone(event)
         THEN /\ pc' = [pc EXCEPT ![c] = "returned"]
              /\ conn' = [conn EXCEPT ![c] = "closed"]
              /\ UNCHANGED <<lines, events, error>>
         ELSE /\ Continue(c, lines[c])
              /\ UNCHANGED <<error, conn>>
  /\ UNCHANGED <<op, args, endpoint, status, wire, pos, aligned, buffer, result, requests>>

\* A faulty variant of TransportError: a request of _request that failed in
\* the transport is sent once more.
TransportError_Retries(c) ==
  /\ pc[c] \in {"awaitReply", "awaitResponse", "awaitChunk"}
  /\ IF pc[c] = "awaitReply" /\ Len(requests) < 2
     THEN /\ requests' = Append(requests, requests[Len(requests)])
          /\ UNCHANGED <<pc, error, conn>>
     ELSE /\ pc' = [pc EXCEPT ![c] = "raised"]
          /\ error' = [error EXCEPT ![c] = Raised("TransportError", << >>)]
          /\ conn' = [conn EXCEPT ![c] = IF pc[c] = "awaitReply" THEN @ ELSE "closed"]
          /\ UNCHANGED requests
  /\ UNCHANGED <<op, args, endpoint, status, wire, pos, aligned, buffer, lines, events,
                 result>>

\* The transport fails (httpx.TransportError: no connection, a timeout, a
\* broken read) while the call awaits it: the exception passes through
\* _request, or through the async with of a streamed call, which closes the
\* response.  Nothing catches it and nothing is sent again.
TransportError(c) ==
  /\ pc[c] \in {"awaitReply", "awaitResponse", "awaitChunk"}
  /\ pc' = [pc EXCEPT ![c] = "raised"]
  /\ error' = [error EXCEPT ![c] = Raised("TransportError", << >>)]
  /\ conn' = [conn EXCEPT ![c] = IF pc[c] = "awaitReply" THEN @ ELSE "closed"]
  /\ UNCHANGED <<op, args, endpoint, status, wire, pos, aligned, buffer, lines, events,
                 result, requests>>

\* The task of the consumer is cancelled while the generator awaits the
\* response or a chunk: CancelledError is raised at the await and leaves the
\* async with, which closes the response.
Cancel(c) ==
  /\ pc[c] \in {"awaitResponse", "awaitChunk"}
  /\ pc' = [pc EXCEPT ![c] = "raised"]
  /\ error' = [error EXCEPT ![c] = Raised("CancelledError", << >>)]
  /\ conn' = [conn EXCEPT ![c] = "closed"]
  /\ UNCHANGED <<op, args, endpoint, status, wire, pos, aligned, buffer, lines, events,
                 result, requests>>

\* The consumer leaves its loop and drops the generator, which stays
\* suspended at its yield, inside the async with.
Abandon(c) ==
  /\ pc[c] = "yielded"
  /\ pc' = [pc EXCEPT ![c] = "dropped"]
  /\ UNCHANGED <<op, args, endpoint, status, wire, pos, aligned, buffer, lines, events,
                 error, conn, result, requests>>

\* A faulty variant of GeneratorExit: the generator ends, the response stays
\* open (a response opened outside an async with).
GeneratorExit_Leaks(c) ==
  /\ pc[c] \in {"yielded", "dropped"}
  /\ pc' = [pc EXCEPT ![c] = "closed"]
  /\ UNCHANGED <<op, args, endpoint, status, wire, pos, aligned, buffer, lines, events,
                 error, conn, result, requests>>

\* aclose() of the suspended generator: GeneratorExit is raised at the yield,
\* no except clause catches it, and it leaves the async with, which closes the
\* response.
GeneratorExit(c) ==
  /\ pc[c] \in {"yielded", "dropped"}
  /\ pc' = [pc EXCEPT ![c] = "closed"]
  /\ conn' = [conn EXCEPT ![c] = "closed"]
  /\ UNCHANGED <<op, args, endpoint, status, wire, pos, aligned, buffer, lines, events,
                 error, result, requests>>

\* The consumer calls aclose() on the generator it holds.
Aclose(c) == pc[c] = "yielded" /\ GeneratorExit(c)

\* The generator the consumer dropped is finalized: the event loop's hook for
\* unreachable async generators runs aclose().
Finalize(c) == pc[c] = "dropped" /\ GeneratorExit(c)

(***************************************************************************)
(* What the server sends: bodies made of whole lines.                      *)
(***************************************************************************)

\* data: {"type":"token","content":"é"}   (a token frame; é is two bytes)
LineToken ==
  <<100, 97, 116, 97, 58, 32, 123, 34, 116, 121, 112, 101, 34, 58, 34, 116,
    111, 107, 101, 110, 34, 44, 34, 99, 111, 110, 116, 101, 110, 116, 34, 58,
    34, 195, 169, 34, 125>>

\* data: {"type":"done"}
LineDone ==
  <<100, 97, 116, 97, 58, 32, 123, 34, 116, 121, 112, 101, 34, 58, 34, 100,
    111, 110, 101, 34, 125>>

\* : ping   (the keep-alive comment)
LinePing == <<58, 32, 112, 105, 110, 103>>

\* : data: {}   (another comment line, one that quotes a data frame)
LineComment == <<58, 32, 100, 97, 116, 97, 58, 32, 123, 125>>

\* data: {bad   (a data frame whose payload is not JSON)
LineBadJson == <<100, 97, 116, 97, 58, 32, 123, 98, 97, 100>>

\* data: 5   (a data frame whose payload is JSON, but no object)
LineNumber == <<100, 97, 116, 97, 58, 32, 53>>

\* data: NaN   (a data frame whose payload json.loads accepts, though no JSON)
LineNaN == <<100, 97, 116, 97, 58, 32, 78, 97, 78>>

\* data: {"type":"error"}   (a data frame of another type)
LineOtherType ==
  <<100, 97, 116, 97, 58, 32, 123, 34, 116, 121, 112, 101, 34, 58, 34, 101,
    114, 114, 111, 114, 34, 125>>

\* "data: " and a byte that occurs in no UTF-8 text
LineBadByte == <<100, 97, 116, 97, 58, 32, 255>>

\* The lines of a body: frames as the protocol defines them, malformed JSON
\* and bytes that are no text ...
FrameKinds == {LineToken, LineDone, LineBadJson, LineBadByte}

\* ... payloads that are JSON, but no token and no done event ...
PayloadKinds == {LineDone, LineNumber, LineNaN, LineOtherType}

\* ... and comment lines.
CommentKinds == {LineToken, LineDone, LinePing, LineComment}

\* The most lines a body holds.
MaxLines == 3

\* The largest chunk the transport cuts out of a body, but for the one that
\* holds all that is left of it.
MaxChunk == 3

\* The lines joined, each followed by "\n", the last one only if terminated.
RECURSIVE Join(_, _)
Join(ls, terminated) ==
  IF ls = << >> THEN << >>
  ELSE IF Len(ls) = 1 THEN IF terminated THEN Append(ls[1], NL) ELSE ls[1]
  ELSE Append(ls[1], NL) \o Join(Tail(ls), terminated)

Bodies(kinds) ==
  { Join(ls, t) : ls \in UNION { [1..k -> kinds] : k \in 0..MaxLines }, t \in BOOLEAN }

\* The bodies of responses that are no success: empty, "Internal Server
\* Error", "é", and a byte that is no text.
ErrorBodies ==
  { << >>,
    <<73, 110, 116, 101, 114, 110, 97, 108, 32, 83, 101, 114, 118, 101, 114, 32,
      69, 114, 114, 111, 114>>,
    <<195, 169>>,
    <<255>> }

\* The statuses the server answers with.
Statuses == {200, 404, 500}

\* {"query": "q"}
ChatParams == [query |-> <<113>>]

\* The sizes of the next chunk of call c.
ChunkSizes(c) ==
  LET left == Len(wire[c]) - pos[c]
  IN  {n \in 1..left : n <= MaxChunk \/ n = left}

\* The streamed calls to the given paths with the given parameters, the
\* server answering with bodies of the given lines.
StreamedOn(c, paths, params, kinds) ==
  \/ \E path \in paths, p \in params : StreamedCall(c, path, p)
  \/ \E st \in Statuses :
       \E body \in IF IsSuccess(st) THEN Bodies(kinds) ELSE ErrorBodies :
         Respond(c, st, body)
  \/ \E n \in ChunkSizes(c) : Chunk(c, n)
  \/ EndOfStream(c)
  \/ Resume(c)

Streamed(c, kinds) == StreamedOn(c, {ChatPath, GeneratePath}, {ChatParams}, kinds)

Next == Streamed(1, FrameKinds)

Spec == Init /\ [][Next]_vars

NextPayloads == Streamed(1, PayloadKinds)

SpecPayloads == Init /\ [][NextPayloads]_vars

NextComments == Streamed(1, CommentKinds)

SpecComments == Init /\ [][NextComments]_vars

\* The memo ids of the calls: "a", "a/?", "%", "é", "", a lone surrogate,
\* which no encoding has bytes for, "# &" and "..".
MemoIds ==
  {<<97>>, <<97, 47, 63>>, <<37>>, <<233>>, << >>, <<55296>>, <<35, 32, 38>>, <<46, 46>>}

\* The id types of the calls: the two the client knows, and "uuid",
\* "Memo_uuid" and "".
IdTypes ==
  {MemoUuid, ReferenceId, <<117, 117, 105, 100>>,
   <<77, 101, 109, 111, 95, 117, 117, 105, 100>>, << >>}

\* {"title": "t"}
UpdateData == [title |-> <<116>>]

\* The update data of the calls: that, {"title": "t", "metadata": {"k": "v"}},
\* {"stream": true} and {}.
UpdateDatas ==
  {UpdateData, [title |-> <<116>>, metadata |-> [k |-> <<118>>]], [stream |-> TRUE], << >>}

\* The bodies of the replies: {}, {"type":"done"}, [], "Not Found", and a
\* byte that is no text.
ReplyBodies ==
  { <<123, 125>>, Payload(LineDone), <<91, 93>>,
    <<78, 111, 116, 32, 70, 111, 117, 110, 100>>, <<255>> }

\* The calls of the memo operations.
Memo(c) ==
  \/ \E memo_id \in MemoIds, id_type \in IdTypes : get_memo(c, memo_id, id_type)
  \/ \E memo_id \in MemoIds, id_type \in IdTypes :
       \E update_data \in UpdateDatas : update_memo(c, memo_id, update_data, id_type)
  \/ \E memo_id \in MemoIds, id_type \in IdTypes : delete_memo(c, memo_id, id_type)
  \/ \E st \in Statuses, body \in ReplyBodies : Reply(c, st, body)

NextMemo == Memo(1)

SpecMemo == Init /\ [][NextMemo]_vars

\* The memo data of create_memo: {"title": "t", "content": "c"}, and the same
\* with "metadata": {"priority": "high"} and with "metadata": {}.
MemoDatas ==
  {[title |-> <<116>>, content |-> <<99>>],
   [title |-> <<116>>, content |-> <<99>>, metadata |-> [priority |-> <<104, 105, 103, 104>>]],
   [title |-> <<116>>, content |-> <<99>>, metadata |-> << >>]}

\* The parameters of list_memos: None, and the dicts with any of "page" (0, 1
\* or 3) and "page_size" (20 or 50).
ListParams ==
  {[given |-> FALSE, value |-> << >>]}
    \cup {[given |-> TRUE, value |-> d] :
            d \in {<< >>} \cup {[page |-> p] : p \in {0, 1, 3}}
                  \cup {[page_size |-> z] : z \in {20, 50}}
                  \cup {[page |-> p, page_size |-> z] : p \in {0, 1, 3}, z \in {20, 50}}}

\* The parameters of chat, generate_doc and their streamed variants:
\* {"query": "q"}, and the same with "stream": true and with "stream": false.
StreamParams ==
  {ChatParams, [query |-> <<113>>, stream |-> TRUE], [query |-> <<113>>, stream |-> FALSE]}

\* data: {}   (a data frame without a type)
LineNoType == <<100, 97, 116, 97, 58, 32, 123, 125>>

\* Bodies of such frames and done frames.
PlainKinds == {LineNoType, LineDone}

\* Every operation of the client, the transport answering or failing.
Calls(c) ==
  \/ \E memo_data \in MemoDatas : create_memo(c, memo_data)
  \/ \E params \in ListParams : list_memos(c, params)
  \/ search(c, ChatParams)
  \/ \E params \in StreamParams : chat(c, params)
  \/ \E params \in StreamParams : generate_doc(c, params)
  \/ Memo(c)
  \/ StreamedOn(c, {ChatPath, GeneratePath}, StreamParams, {LineDone})
  \/ TransportError(c)

NextCalls == Calls(1)

SpecCalls == Init /\ [][NextCalls]_vars

\* A streamed call and its consumer, which may stop asking for events, close
\* the generator or be cancelled.
Consumed(c) ==
  \/ StreamedOn(c, {ChatPath, GeneratePath}, {ChatParams}, PlainKinds)
  \/ TransportError(c)
  \/ Cancel(c)
  \/ Abandon(c)
  \/ Aclose(c)
  \/ Finalize(c)

NextConsumed == Consumed(1)

\* The event loop finalizes a generator that was dropped; nothing makes a
\* consumer ask for the next event or close a generator it holds.
SpecConsumed == Init /\ [][NextConsumed]_vars /\ WF_vars(Finalize(1))

\* Two streamed calls of one client, their steps interleaved in any order:
\* a streamed_chat answered with events that have no type, and a
\* streamed_generate_doc answered with done events.
NextPair ==
  \/ StreamedOn(1, {ChatPath}, {ChatParams}, {LineNoType})
  \/ StreamedOn(2, {GeneratePath}, {ChatParams}, {LineDone})

SpecPair == Init /\ [][NextPair]_vars

\* The lines of a stream that is decoded twice: an event without a type, a
\* done event, and the number 5, at which the generator raises.
TwiceKinds == {LineNoType, LineDone, LineNumber}

\* Two streamed calls of one client, one after the other: a streamed_chat,
\* and once it is over a streamed_chat or a streamed_generate_doc that the
\* server answers with the status and the body it answered the first with,
\* cut into chunks of its own.
NextTwice ==
  \/ StreamedOn(1, {ChatPath}, {ChatParams}, TwiceKinds)
  \/ /\ pc[1] \in {"returned", "raised"}
     /\ \/ \E path \in {ChatPath, GeneratePath} : StreamedCall(2, path, ChatParams)
        \/ Respond(2, status[1], wire[1])
        \/ \E n \in ChunkSizes(2) : Chunk(2, n)
        \/ EndOfStream(2)
        \/ Resume(2)

SpecTwice == Init /\ [][NextTwice]_vars

\* The sizes of a next chunk of call c that ends with a line or with the
\* stream: the transport delivers one line or several at a time.
WholeLines(c) ==
  {n \in 1..(Len(wire[c]) - pos[c]) :
     pos[c] + n = Len(wire[c]) \/ wire[c][pos[c] + n] = NL}

\* Bodies of frames, done frames and frames of invalid JSON.
BatchKinds == {LineNoType, LineDone, LineBadJson}

\* A streamed call whose chunks hold whole lines.
NextBatches ==
  \/ \E path \in {ChatPath, GeneratePath} : StreamedCall(1, path, ChatParams)
  \/ \E st \in Statuses :
       \E body \in IF IsSuccess(st) THEN Bodies(BatchKinds) ELSE ErrorBodies :
         Respond(1, st, body)
  \/ \E n \in WholeLines(1) : Chunk(1, n)
  \/ EndOfStream(1)
  \/ Resume(1)

SpecBatches == Init /\ [][NextBatches]_vars

\* data: {"type":"done"}\r   (a done frame of a stream that ends its lines
\* with "\r\n")
LineDoneCR == Append(LineDone, 13)

\* " \tdata: {}\t "   (a frame between spaces and tabs)
LinePadded == <<32, 9>> \o LineNoType \o <<9, 32>>

\* " \t"   (a line of a space and a tab)
LineSpaces == <<32, 9>>

\* Bodies of frames with white space around them.
TrimKinds == {LineNoType, LineDoneCR, LinePadded, LineSpaces}

NextTrimmed == Streamed(1, TrimKinds)

SpecTrimmed == Init /\ [][NextTrimmed]_vars

\* event: x   (a field of server-sent events the client has no use for)
LineEvent == <<101, 118, 101, 110, 116, 58, 32, 120>>

\* data:{}   (no space after the colon)
LineNoSpace == <<100, 97, 116, 97, 58, 123, 125>>

\* Bodies of frames and of lines of other shapes.
OtherKinds == {LineNoType, LineDone, LineEvent, LineNoSpace}

NextOther == Streamed(1, OtherKinds)

SpecOther == Init /\ [][NextOther]_vars

(***************************************************************************)
(* Properties.                                                             *)
(***************************************************************************)

\* The call has ended: its generator returned or raised.
Terminal(c) == pc[c] \in {"returned", "raised"}

\* The call is a streamed call whose initiating response was a success.
Streaming(c) == op[c] \in {"streamed_chat", "streamed_generate_doc"} /\ IsSuccess(status[c])

\* A done event, a token event (types.py: ChatStreamEvent, GenerateDocStreamEvent).
DoneEvent(e) == e.kind = "object" /\ e.tkind = "string" /\ e.type = <<100, 111, 110, 101>>

TokenEvent(e) == e.kind = "object" /\ e.tkind = "string" /\ e.type = TypeToken

Last(s) == s[Len(s)]

\* What a consumer that asks for events until the generator ends gets from the
\* complete lines ls: the events, and how the generator ends ("exhausted":
\* the lines ran out).
RECURSIVE Drain(_)
Drain(ls) ==
  IF ls = << >> THEN [events |-> << >>, end |-> "exhausted"]
  ELSE With(Classify(Head(ls)), LAMBDA r :
         IF ~r.yield THEN Drain(Tail(ls))
         ELSE IF ~HasGet(r.event) THEN [events |-> <<r.event>>, end |-> "AttributeError"]
         ELSE IF IsDone(r.event) THEN [events |-> <<r.event>>, end |-> "done"]
         ELSE With(Drain(Tail(ls)), LAMBDA d :
                [events |-> <<r.event>> \o d.events, end |-> d.end]))

\* The same for a body w that arrives as one chunk.
OneChunk(w) ==
  With(Utf8Decode(w), LAMBDA d :
    IF ~d.ok THEN [events |-> << >>, end |-> "UnicodeDecodeError"]
    ELSE Drain(CompleteLines(Split(d.text))))

\* The complete lines of the text call c has received so far, and those of
\* them its loop has visited (all but the ones of the current chunk that it
\* has yet to visit).  Defined while no chunk failed to decode.
ReceivedLines(c) ==
  CompleteLines(Split(Utf8Decode(SubSeq(wire[c], 1, pos[c])).text))

VisitedLines(c) ==
  With(ReceivedLines(c), LAMBDA ls : SubSeq(ls, 1, Len(ls) - Len(lines[c])))

Decoding(c) == Streaming(c) /\ error[c].kind # "UnicodeDecodeError"

\* The lines ls without those that Drop holds of.
Without(ls, Drop(_)) == SelectSeq(ls, LAMBDA l : ~Drop(l))

InvalidJsonFrame(line) ==
  With(Strip(line), LAMBDA s : IsData(s) /\ ~JsonLoads(Payload(s)).ok)

C3_DoneIsTerminal ==
  [][\A c \in CallIds :
       (events[c] # << >> /\ DoneEvent(Last(events[c])))
         => (events'[c] = events[c] /\ pos'[c] = pos[c] /\ pc'[c] \in {"yielded", "returned"}
             /\ error'[c] = NoError)]_vars

\* A call that returned after a done event while complete lines that follow
\* it in the same chunk, the first one a valid frame, are left unvisited.
C3_Witness ==
  /\ Streaming(1) /\ pc[1] = "returned"
  /\ events[1] # << >> /\ DoneEvent(Last(events[1]))
  /\ lines[1] # << >> /\ Classify(lines[1][1]).yield

\* C4, as stated: only events whose type is token or done reach the caller.
C4_OnlyTokenOrDone ==
  \A c \in CallIds :
    \A i \in 1..Len(events[c]) : TokenEvent(events[c][i]) \/ DoneEvent(events[c][i])

\* C5, as stated: after a successful initiating response no data frame makes
\* the call raise, a frame whose payload is JSON but no object included.
C5_NoFrameRaises ==
  \A c \in CallIds : Streaming(c) => error[c].kind # "AttributeError"

\* C6, as stated: a multi-byte character cut by a chunk boundary is decoded as
\* if it had arrived whole: on a well-formed body the call raises no decoding
\* error, however the body is cut.
C6_SplitCharacterDecoded ==
  \A c \in CallIds :
    (Streaming(c) /\ error[c].kind = "UnicodeDecodeError") => ~Utf8Decode(wire[c]).ok

\* C7, as stated: with an initiating response that is no success the call
\* raises an API error with the status code and the body text, yields no
\* event and never reads the chunk stream.
C7_NonSuccessRaisesApiError ==
  \A c \in CallIds :
    (op[c] \in {"streamed_chat", "streamed_generate_doc"}
       /\ pc[c] \notin {"idle", "awaitResponse"} /\ ~IsSuccess(status[c]))
      => /\ pc[c] = "raised"
         /\ error[c].kind = "Exception"
         /\ StartsWith(error[c].message, ApiErrorMessage(status[c], << >>))
         /\ Utf8Decode(wire[c]).ok
              => error[c].message = ApiErrorMessage(status[c], Utf8Decode(wire[c]).text)
         /\ events[c] = << >>
         /\ pos[c] = 0

\* A line that begins with ": " once trimmed.
KeepAliveLine(line) == StartsWith(Strip(line), <<58, 32>>)

\* C8: a complete line that begins with ": " yields no event, raises no error
\* and does not affect the events of the lines around it: at every moment the
\* events yielded are those of the lines visited with such lines left out, and
\* the call has raised only if it raises without them.
C8_KeepAliveIgnored ==
  \A c \in CallIds :
    Decoding(c) =>
      With(Drain(Without(VisitedLines(c), KeepAliveLine)), LAMBDA ref :
        /\ events[c] = ref.events
        /\ pc[c] = "raised" => ref.end = "AttributeError")

\* A call that has visited a comment line that is no ping between two frames,
\* and yielded the two events.
C8_Witness ==
  /\ Decoding(1) /\ error[1] = NoError
  /\ With(VisitedLines(1), LAMBDA ls :
       /\ Len(ls) = 3
       /\ ~KeepAliveLine(ls[1]) /\ ~KeepAliveLine(ls[3])
       /\ KeepAliveLine(ls[2]) /\ ~IsPing(Strip(ls[2])))
  /\ Len(events[1]) = 2

\* C9: when the transport closes a stream while the call awaits a chunk, no
\* done event yielded, the call returns: it raises nothing and yields nothing,
\* and the events it has yielded are those of the complete lines received, no
\* done event among them.
C9_EndWithoutDone ==
  [][\A c \in CallIds :
       (pc[c] = "awaitChunk" /\ pos[c] = Len(wire[c]) /\ pc'[c] # pc[c])
         => /\ pc'[c] = "returned"
            /\ error'[c] = NoError
            /\ events'[c] = events[c]
            /\ events[c] = Drain(ReceivedLines(c)).events
            /\ \A i \in 1..Len(events[c]) : ~DoneEvent(events[c][i])]_vars

\* A call that returned at the end of a stream of one frame or more and an
\* unterminated last line, none of them a done frame.
C9_Witness ==
  /\ Streaming(1) /\ pc[1] = "returned" /\ error[1] = NoError
  /\ pos[1] = Len(wire[1])
  /\ events[1] # << >> /\ ~DoneEvent(Last(events[1]))
  /\ buffer[1] # << >>

\* The requests call c handed to the transport.
RequestsOf(c) == SelectSeq(requests, LAMBDA r : r.call = c)

\* C10: with an id_type other than "memo_uuid" and "reference_id", get_memo,
\* update_memo and delete_memo raise ValueError and no request is built or
\* sent; with one of the two they raise no ValueError.
C10_IdTypeValidated ==
  \A c \in CallIds :
    op[c] \in {"get_memo", "update_memo", "delete_memo"} =>
      IF args[c].id_type \in {MemoUuid, ReferenceId}
      THEN error[c].kind # "ValueError"
      ELSE /\ pc[c] = "raised"
           /\ error[c].kind = "ValueError"
           /\ RequestsOf(c) = << >>
           /\ endpoint[c] = << >>

\* An update_memo that raised ValueError for the id_type "Memo_uuid".
C10_Witness ==
  /\ op[1] = "update_memo" /\ pc[1] = "raised"
  /\ args[1].id_type = <<77, 101, 109, 111, 95, 117, 117, 105, 100>>
  /\ error[1].kind = "ValueError"
  /\ requests = << >>

\* The operations that are no generators.
NonStreaming ==
  {"create_memo", "get_memo", "list_memos", "update_memo", "delete_memo", "search",
   "chat", "generate_doc"}

\* The request of call c, once it has made one.
RequestOf(c) == RequestsOf(c)[1]

\* C11: on a status that is no 2xx every non-streaming operation raises the
\* one API error, Exception("Skald API error (<status>): <body text>"), and
\* returns no result.
C11_NonSuccessRaisesApiError ==
  \A c \in CallIds :
    (op[c] \in NonStreaming /\ status[c] # 0 /\ (status[c] < 200 \/ status[c] > 299))
      => /\ pc[c] = "raised"
         /\ error[c].kind = "Exception"
         /\ StartsWith(error[c].message, ApiErrorMessage(status[c], << >>))
         /\ IF Utf8Decode(wire[c]).ok
            THEN error[c].message = ApiErrorMessage(status[c], Utf8Decode(wire[c]).text)
            ELSE Len(error[c].message) > Len(ApiErrorMessage(status[c], << >>))
         /\ result[c] = NoResult

\* A search answered with 404 and "Not Found", which raised the API error
\* with that status and that text.
C11_Witness ==
  /\ op[1] = "search" /\ status[1] = 404 /\ pc[1] = "raised"
  /\ error[1].message = ApiErrorMessage(404, <<78, 111, 116, 32, 70, 111, 117, 110, 100>>)

\* C12: the body create_memo transmits has the keys of the memo data and
\* "metadata", every key of the memo data with the caller's value, and
\* "metadata" the empty dict if the memo data has none.
C12_MetadataDefault ==
  \A c \in CallIds :
    (op[c] = "create_memo" /\ RequestsOf(c) # << >>)
      => LET d == args[c].memo_data
             b == RequestOf(c).body
         IN  /\ RequestOf(c).hasBody
             /\ DOMAIN b = DOMAIN d \cup {"metadata"}
             /\ \A k \in DOMAIN d : b[k] = d[k]
             /\ "metadata" \notin DOMAIN d => b["metadata"] = << >>

\* A create_memo whose memo data has the metadata {"priority": "high"}, and
\* whose request carries it.
C12_Witness ==
  /\ op[1] = "create_memo" /\ RequestsOf(1) # << >>
  /\ "metadata" \in DOMAIN args[1].memo_data
  /\ args[1].memo_data["metadata"] # << >>
  /\ RequestOf(1).body["metadata"] = args[1].memo_data["metadata"]

\* C13: get_memo, update_memo and delete_memo build one path out of the memo
\* id and the id_type: "/api/v1/memo/" and the encoded id, followed by
\* "?id_type=reference_id" if the id_type is "reference_id" and by nothing if
\* it is "memo_uuid".
C13_MemoPath ==
  \A c \in CallIds :
    (op[c] \in {"get_memo", "update_memo", "delete_memo"} /\ RequestsOf(c) # << >>)
      => LET path == <<47, 97, 112, 105, 47, 118, 49, 47, 109, 101, 109, 111, 47>> \o Quote(args[c].memo_id).text
                       \o (IF args[c].id_type = ReferenceId
                           THEN <<63, 105, 100, 95, 116, 121, 112, 101, 61, 114, 101, 102, 101, 114, 101, 110, 99, 101, 95, 105, 100>>
                           ELSE << >>)
         IN  /\ endpoint[c] = path
             /\ RequestOf(c).url = BaseUrl \o path

\* A delete_memo of the memo "a/?" by memo_uuid, whose path has no query.
C13_Witness ==
  /\ op[1] = "delete_memo" /\ RequestsOf(1) # << >>
  /\ args[1].memo_id = <<97, 47, 63>> /\ args[1].id_type = MemoUuid
  /\ endpoint[1] = <<47, 97, 112, 105, 47, 118, 49, 47, 109, 101, 109, 111, 47, 97, 37, 50, 70, 37, 51, 70>>

\* C14: the body of chat and generate_doc has "stream" false, the body of
\* streamed_chat and streamed_generate_doc has "stream" true, whatever
\* "stream" the caller's parameters hold, and every other key of the
\* parameters with the caller's value.
C14_StreamFlag ==
  \A c \in CallIds :
    (op[c] \in {"chat", "generate_doc", "streamed_chat", "streamed_generate_doc"}
       /\ RequestsOf(c) # << >>)
      => LET d == args[c].params
             b == RequestOf(c).body
         IN  /\ RequestOf(c).hasBody
             /\ DOMAIN b = DOMAIN d \cup {"stream"}
             /\ b["stream"] = (op[c] \in {"streamed_chat", "streamed_generate_doc"})
             /\ \A k \in DOMAIN d \ {"stream"} : b[k] = d[k]

\* A chat whose parameters hold "stream": true, and whose request holds
\* "stream": false.
C14_Witness ==
  /\ op[1] = "chat" /\ RequestsOf(1) # << >>
  /\ "stream" \in DOMAIN args[1].params /\ args[1].params["stream"]
  /\ ~RequestOf(1).body["stream"]

\* The streamed call c has left its generator: by a return, by an exception
\* or by being closed.
Exited(c) == Streaming(c) /\ pc[c] \in {"returned", "raised", "closed"}

ReceivedText(c) == Utf8Decode(SubSeq(wire[c], 1, pos[c])).text

\* C16: of two streamed calls of one client whose steps are interleaved in
\* any order, each has yielded, in every state, the events of the lines it
\* has itself received and visited, holds in its buffer the end of its own
\* text, and once it is over has yielded the events it yields when its body
\* arrives alone and as one chunk; a call answered with no success has
\* yielded nothing.
C16_ConcurrentCallsIndependent ==
  \A c \in CallIds :
    (Streaming(c) /\ status[c] # 0)
      => IF IsSuccess(status[c])
         THEN /\ events[c] = Drain(VisitedLines(c)).events
              /\ buffer[c] = IncompleteLine(Split(ReceivedText(c)))
              /\ Terminal(c) => /\ pc[c] = "returned"
                                /\ events[c] = OneChunk(wire[c]).events
         ELSE /\ events[c] = << >>
              /\ pc[c] = "raised"

\* Both calls are in the middle of a line, each with its own part of it in
\* its buffer, and the first has yielded an event.
C16_Witness ==
  /\ pc[1] = "awaitChunk" /\ pc[2] = "awaitChunk"
  /\ buffer[1] # << >> /\ buffer[2] # << >> /\ buffer[1] # buffer[2]
  /\ events[1] # << >> /\ events[2] = << >>

\* The operations that take a memo id and an id_type.
MemoOps == {"get_memo", "update_memo", "delete_memo"}

\* Call c passed the validation of its arguments: it is no memo operation,
\* or its id_type is one of the two.
ValidationPassed(c) ==
  op[c] \in MemoOps => args[c].id_type \in {MemoUuid, ReferenceId}

\* C17, as stated: every call has made at most one request, none if the
\* validation of the id_type failed, and exactly one if the validation
\* passed.
C17_OneRequestPerCall ==
  \A c \in CallIds :
    op[c] # "none"
      => /\ Len(RequestsOf(c)) <= 1
         /\ ~ValidationPassed(c) => RequestsOf(c) = << >>
         /\ ValidationPassed(c) => Len(RequestsOf(c)) = 1

\* C17: every call has made at most one request, whatever came back (a
\* result, a status that is no success, a failure of the transport): none if
\* the validation of the id_type failed or the memo id cannot be encoded,
\* and exactly one otherwise.
C17_OneRequestIfEncodable ==
  \A c \in CallIds :
    op[c] # "none"
      => /\ Len(RequestsOf(c)) <= 1
         /\ ~ValidationPassed(c) => RequestsOf(c) = << >>
         /\ (op[c] \in MemoOps /\ ~Quote(args[c].memo_id).ok) => RequestsOf(c) = << >>
         /\ (ValidationPassed(c) /\ (op[c] \in MemoOps => Quote(args[c].memo_id).ok))
              => Len(RequestsOf(c)) = 1

\* A get_memo that raised after a failure of the transport, with its one
\* request made.
C17_Witness ==
  /\ op[1] = "get_memo" /\ pc[1] = "raised" /\ error[1].kind = "TransportError"
  /\ Len(RequestsOf(1)) = 1

\* The value of a hexadecimal digit, -1 for any other character.
HexValue(ch) ==
  IF ch \in 48..57 THEN ch - 48
  ELSE IF ch \in 65..70 THEN ch - 55
  ELSE IF ch \in 97..102 THEN ch - 87
  ELSE 0 - 1

\* The text starts with an escape "%XX".
IsEscape(t) == Len(t) >= 3 /\ t[1] = 37 /\ HexValue(t[2]) >= 0 /\ HexValue(t[3]) >= 0

\* The bytes of the escapes the text starts with.
RECURSIVE EscapedBytes(_)
EscapedBytes(t) ==
  IF IsEscape(t)
  THEN <<16 * HexValue(t[2]) + HexValue(t[3])>> \o EscapedBytes(SubSeq(t, 4, Len(t)))
  ELSE << >>

\* Percent-decoding, as a server does it: every run of escapes is replaced
\* by the text its bytes are in UTF-8, every other character stays.
RECURSIVE Unquote(_)
Unquote(t) ==
  IF t = << >> THEN << >>
  ELSE IF IsEscape(t)
    THEN With(EscapedBytes(t), LAMBDA b :
           ResponseText(b) \o Unquote(SubSeq(t, 3 * Len(b) + 1, Len(t))))
  ELSE <<Head(t)>> \o Unquote(Tail(t))

\* The text up to the first character of stops.
RECURSIVE UpTo(_, _)
UpTo(t, stops) ==
  IF t = << >> \/ Head(t) \in stops THEN << >>
  ELSE <<Head(t)>> \o UpTo(Tail(t), stops)

\* The segment of the path ep that follows "/api/v1/memo/": it ends at the
\* next "/", "?" or "#", or with the path.
MemoSegment(ep) == UpTo(SubSeq(ep, 14, Len(ep)), {47, 63, 35})

\* C18, as stated: for every identifier, the path that get_memo, update_memo
\* and delete_memo build for a valid id_type holds a segment whose
\* percent-decoding is the identifier.
C18_RoundTripEveryId ==
  \A c \in CallIds :
    (op[c] \in MemoOps /\ ValidationPassed(c))
      => /\ StartsWith(endpoint[c], <<47, 97, 112, 105, 47, 118, 49, 47, 109, 101, 109, 111, 47>>)
         /\ Unquote(MemoSegment(endpoint[c])) = args[c].memo_id

\* C18: for every identifier that can be encoded in UTF-8, with reserved
\* characters or without, the path that get_memo, update_memo and delete_memo
\* build for a valid id_type holds a segment whose percent-decoding is the
\* identifier; for an identifier that cannot be encoded no path is built.
C18_RoundTripEncodable ==
  \A c \in CallIds :
    (op[c] \in MemoOps /\ ValidationPassed(c))
      => IF Quote(args[c].memo_id).ok
         THEN /\ StartsWith(endpoint[c], <<47, 97, 112, 105, 47, 118, 49, 47, 109, 101, 109, 111, 47>>)
              /\ Unquote(MemoSegment(endpoint[c])) = args[c].memo_id
         ELSE endpoint[c] = << >> /\ error[c].kind = "UnicodeEncodeError"

\* A get_memo of the memo "# &" by reference_id: the segment is "%23%20%26",
\* which decodes to "# &".
C18_Witness ==
  /\ op[1] = "get_memo" /\ args[1].memo_id = <<35, 32, 38>>
  /\ args[1].id_type = ReferenceId
  /\ MemoSegment(endpoint[1]) = <<37, 50, 51, 37, 50, 48, 37, 50, 54>>
  /\ Unquote(MemoSegment(endpoint[1])) = <<35, 32, 38>>

\* The value the caller of list_memos supplied for key, or default if the
\* caller supplied none (no params at all, or params without the key).
Supplied(c, key, default) ==
  IF args[c].params.given /\ key \in DOMAIN args[c].params.value
  THEN args[c].params.value[key]
  ELSE default

\* C19: the request of list_memos is a GET of
\* "/api/v1/memo?page=<page>&page_size=<page_size>", with both parameters in
\* every case: each is the caller's value if the caller supplied it and
\* otherwise 1 for page and 20 for page_size, whether or not the other was
\* supplied.
C19_PageAndPageSize ==
  \A c \in CallIds :
    (op[c] = "list_memos" /\ RequestsOf(c) # << >>)
      => /\ RequestOf(c).method = "GET" /\ ~RequestOf(c).hasBody
         /\ RequestOf(c).url =
              BaseUrl \o <<47, 97, 112, 105, 47, 118, 49, 47, 109, 101, 109, 111, 63, 112, 97, 103, 101, 61>>
                \o FormatInt(Supplied(c, "page", 1))
                \o <<38, 112, 97, 103, 101, 95, 115, 105, 122, 101, 61>>
                \o FormatInt(Supplied(c, "page_size", 20))

\* A list_memos with {"page_size": 50} and no page, which asks for
\* "/api/v1/memo?page=1&page_size=50".
C19_Witness ==
  /\ op[1] = "list_memos" /\ args[1].params.given
  /\ DOMAIN args[1].params.value = {"page_size"}
  /\ endpoint[1] = <<47, 97, 112, 105, 47, 118, 49, 47, 109, 101, 109, 111, 63, 112, 97, 103, 101, 61, 49, 38, 112, 97, 103, 101, 95, 115, 105, 122, 101, 61, 53, 48>>

\* C20: the body of the request of update_memo is the update data of the
\* caller: the same keys, each with the caller's value, none added and none
\* left out.
C20_UpdateBodyAsGiven ==
  \A c \in CallIds :
    (op[c] = "update_memo" /\ RequestsOf(c) # << >>)
      => /\ RequestOf(c).method = "PATCH" /\ RequestOf(c).hasBody
         /\ DOMAIN RequestOf(c).body = DOMAIN args[c].data
         /\ \A k \in DOMAIN args[c].data : RequestOf(c).body[k] = args[c].data[k]

\* An update_memo with {"title": "t"} alone, whose body has the key "title"
\* and no other.
C20_Witness ==
  /\ op[1] = "update_memo" /\ RequestsOf(1) # << >>
  /\ DOMAIN args[1].data = {"title"}
  /\ DOMAIN RequestOf(1).body = {"title"}
  /\ RequestOf(1).body["title"] = <<116>>

\* Both calls are over and had the same answer, delivered up to the same
\* place: the same status, the same bytes, the same number of them received.
SameStream ==
  /\ Streaming(1) /\ Streaming(2) /\ Terminal(1) /\ Terminal(2)
  /\ status[1] = status[2] /\ wire[1] = wire[2] /\ pos[1] = pos[2]

\* C21: a streamed call made after another one of the same operation and
\* answered with the same stream has yielded the same events and ended the
\* same way: nothing the first call left (its buffer, its lines) reaches the
\* second.
C21_SameStreamSameEvents ==
  (SameStream /\ op[1] = op[2])
    => /\ events[2] = events[1]
       /\ pc[2] = pc[1]
       /\ error[2] = error[1]

\* Two streamed_chat calls answered with the same stream, the first of which
\* ended with an unfinished line in its buffer, after the same two events.
C21_Witness ==
  /\ SameStream /\ op[1] = "streamed_chat" /\ op[2] = "streamed_chat"
  /\ buffer[1] # << >>
  /\ Len(events[1]) = 2 /\ events[2] = events[1]

LastNewline(w) ==
  IF \E i \in 1..Len(w) : w[i] = NL
  THEN CHOOSE i \in 1..Len(w) : w[i] = NL /\ \A j \in (i + 1)..Len(w) : w[j] # NL
  ELSE 0

\* Call c returned because the transport closed the stream, no done event
\* yielded.
ClosedByTransport(c) ==
  /\ Streaming(c) /\ pc[c] = "returned" /\ pos[c] = Len(wire[c])
  /\ \A i \in 1..Len(events[c]) : ~DoneEvent(events[c][i])

\* C23: a call that returned because the transport closed the stream has
\* yielded the events of the stream cut after its last newline, and no
\* other: what followed the last newline is still in the buffer and yielded
\* nothing, a well-formed data frame included.
C23_UnterminatedLineDiscarded ==
  \A c \in CallIds :
    ClosedByTransport(c)
      => /\ events[c] = OneChunk(SubSeq(wire[c], 1, LastNewline(wire[c]))).events
         /\ buffer[c] =
              Utf8Decode(SubSeq(wire[c], LastNewline(wire[c]) + 1, Len(wire[c]))).text

\* A stream of a token frame followed by an unterminated done frame: the call
\* yielded the token event alone and returned.
C23_Witness ==
  /\ ClosedByTransport(1)
  /\ buffer[1] = LineDone
  /\ Len(events[1]) = 1 /\ TokenEvent(events[1][1])

\* The frame a line with white space around it stands for: the same frame
\* with nothing around it.
Bare(line) ==
  IF line = LineDoneCR THEN LineDone
  ELSE IF line = LinePadded THEN LineNoType
  ELSE line

\* The lines ls, each as the bare frame it stands for, those of white space
\* alone left out.
BareLines(ls) ==
  With(Without(ls, LAMBDA l : l = LineSpaces), LAMBDA kept :
    [i \in 1..Len(kept) |-> Bare(kept[i])])

\* C24: a frame that ends with "\r", or has spaces and tabs before and after
\* it, yields the event the bare frame yields, and a line of white space
\* alone yields nothing: at every moment the events yielded are those of the
\* lines visited taken bare, and nothing is raised.
C24_TrimmedBeforeClassified ==
  \A c \in CallIds :
    (Streaming(c) /\ IsSuccess(status[c]))
      => With(Drain(BareLines(VisitedLines(c))), LAMBDA ref :
           /\ events[c] = ref.events
           /\ error[c] = NoError
           /\ pc[c] = "returned" => (ref.end = "done" \/ pos[c] = Len(wire[c])))

\* A stream of a padded frame, a line of white space and a done frame ended
\* by "\r\n": two events, the second the done event, and the call returned.
C24_Witness ==
  /\ Streaming(1) /\ pc[1] = "returned"
  /\ VisitedLines(1) = <<LinePadded, LineSpaces, LineDoneCR>>
  /\ Len(events[1]) = 2 /\ DoneEvent(events[1][2]) /\ ~DoneEvent(events[1][1])

\* A line of a shape the decoder does not know: "event: x", or "data:{}".
OtherLine(line) == line \in {LineEvent, LineNoSpace}

\* C25: a complete line that is not empty, no keep-alive and not prefixed
\* with "data: " yields no event and raises nothing, and the lines after it
\* are decoded: at every moment the events yielded are those of the lines
\* visited with such lines left out, and no error is raised.
C25_OtherLinesDiscarded ==
  \A c \in CallIds :
    (Streaming(c) /\ IsSuccess(status[c]))
      => /\ events[c] = Drain(Without(VisitedLines(c), OtherLine)).events
         /\ error[c] = NoError

\* A stream of "event: x", "data:{}" and a done frame: one event, the done
\* event.
C25_Witness ==
  /\ Streaming(1) /\ pc[1] = "returned"
  /\ VisitedLines(1) = <<LineEvent, LineNoSpace, LineDone>>
  /\ Len(events[1]) = 1 /\ DoneEvent(events[1][1])

\* The number of newline characters call c has received.
NewlinesReceived(c) == Cardinality({i \in 1..pos[c] : wire[c][i] = NL})

\* C26: at every moment a streamed call has yielded at most as many events
\* as it has received newline characters.
C26_EventsBoundedByNewlines ==
  \A c \in CallIds : Streaming(c) => Len(events[c]) <= NewlinesReceived(c)

\* A call that has yielded two events after two newlines and holds the start
\* of a third line, a frame not yet terminated, in its buffer.
C26_Witness ==
  /\ Streaming(1) /\ pc[1] = "awaitChunk"
  /\ Len(events[1]) = 2 /\ NewlinesReceived(1) = 2
  /\ buffer[1] = Utf8Decode(LineToken).text

\* The complete lines of the first p bytes of w, but for the last ones, which
\* are left in ls.
VisitedOf(w, p, ls) ==
  With(CompleteLines(Split(Utf8Decode(SubSeq(w, 1, p)).text)), LAMBDA all :
    SubSeq(all, 1, Len(all) - Len(ls)))

\* C27: when a streamed call asks the transport for its next chunk, it has
\* yielded every event of the lines it has received, and an event is yielded
\* by being added after the events yielded before it, as the event of the
\* next line: events come in the order of their frames, and those of a chunk
\* before the next chunk is pulled.
C27_ChunkDrainedBeforeNext ==
  [][\A c \in CallIds :
       /\ (pc[c] = "awaitChunk" /\ (pos'[c] # pos[c] \/ pc'[c] # pc[c]))
            => events[c] = Drain(ReceivedLines(c)).events
       /\ events'[c] # events[c]
            => /\ Len(events'[c]) = Len(events[c]) + 1
               /\ SubSeq(events'[c], 1, Len(events[c])) = events[c]
               /\ events'[c] = Drain(VisitedOf(wire'[c], pos'[c], lines'[c])).events
    ]_vars

\* A chunk of several lines arrived with more of the stream to come: its
\* first event is yielded, lines of it are left to visit, and the transport
\* holds bytes that are not pulled yet.
C27_Witness ==
  /\ Streaming(1) /\ pc[1] = "yielded"
  /\ Len(events[1]) = 1 /\ lines[1] # << >>
  /\ Drain(lines[1]).events # << >>
  /\ pos[1] < Len(wire[1])

\* What follows "/api/v1/memo/" in the path ep, up to the query.
SegmentOf(ep) == UpTo(SubSeq(ep, 14, Len(ep)), {63})

\* What follows that in ep: nothing, or "?" and the query.
QueryOf(ep) == SubSeq(ep, 14 + Len(SegmentOf(ep)), Len(ep))

\* C28: the path get_memo, update_memo and delete_memo ask for is
\* "/api/v1/memo/", one segment without "/", "?", "#" and "&", and then
\* nothing or "?id_type=reference_id", whatever the identifier.
C28_SegmentHasNoReserved ==
  \A c \in CallIds :
    (op[c] \in MemoOps /\ RequestsOf(c) # << >>)
      => /\ RequestOf(c).url = BaseUrl \o endpoint[c]
         /\ StartsWith(endpoint[c], <<47, 97, 112, 105, 47, 118, 49, 47, 109, 101, 109, 111, 47>>)
         /\ \A i \in 1..Len(SegmentOf(endpoint[c])) :
              SegmentOf(endpoint[c])[i] \notin {47, 63, 35, 38}
         /\ QueryOf(endpoint[c]) \in {<< >>, <<63, 105, 100, 95, 116, 121, 112, 101, 61, 114, 101, 102, 101, 114, 101, 110, 99, 101, 95, 105, 100>>}

\* An update_memo of the memo "# &" by reference_id, which asks for
\* "/api/v1/memo/%23%20%26?id_type=reference_id".
C28_Witness ==
  /\ op[1] = "update_memo" /\ RequestsOf(1) # << >>
  /\ args[1].memo_id = <<35, 32, 38>>
  /\ endpoint[1] = <<47, 97, 112, 105, 47, 118, 49, 47, 109, 101, 109, 111, 47, 37, 50, 51, 37, 50, 48, 37, 50, 54, 63, 105, 100, 95, 116, 121, 112, 101, 61, 114, 101, 102, 101, 114, 101, 110, 99, 101, 95, 105, 100>>

\* The operations that build their body out of a copy of the caller's map.
CopyingOps ==
  {"create_memo", "chat", "generate_doc", "streamed_chat", "streamed_generate_doc"}

\* The map the caller handed to call c, as it was when the call was made.
CallerMap(c) == IF op[c] = "create_memo" THEN args[c].memo_data ELSE args[c].params

\* C29: after create_memo, chat, generate_doc, streamed_chat and
\* streamed_generate_doc have built their request, the map of the caller has
\* the keys and the values it had before, also where the body of the request
\* got a "metadata" or a "stream" of its own.
C29_CallerMapUnchanged ==
  \A c \in CallIds :
    op[c] \in CopyingOps
      => /\ DOMAIN args[c].after = DOMAIN CallerMap(c)
         /\ \A k \in DOMAIN CallerMap(c) : args[c].after[k] = CallerMap(c)[k]

\* A streamed_chat with {"query": "q", "stream": false}: the request holds
\* "stream": true, the map of the caller still "stream": false.
C29_Witness ==
  /\ op[1] = "streamed_chat" /\ RequestsOf(1) # << >>
  /\ "stream" \in DOMAIN args[1].params /\ ~args[1].params["stream"]
  /\ RequestOf(1).body["stream"]
  /\ ~args[1].after["stream"]

\* The bytes call c has received so far, and those that follow the last
\* newline among them.
ReceivedBytes(c) == SubSeq(wire[c], 1, pos[c])

ReceivedTail(c) ==
  With(ReceivedBytes(c), LAMBDA r : SubSeq(r, LastNewline(r) + 1, Len(r)))

\* C30: once a chunk has been processed, and from then on until the next one
\* arrives, the buffer of the call holds no newline and is the text received
\* after the last newline received: the text received so far when no newline
\* has arrived, nothing when the last character received is a newline.
C30_BufferIsTextAfterLastNewline ==
  \A c \in CallIds :
    (Decoding(c) /\ pos[c] > 0)
      => /\ \A i \in 1..Len(buffer[c]) : buffer[c][i] # NL
         /\ buffer[c] = Utf8Decode(ReceivedTail(c)).text
         /\ (wire[c][pos[c]] = NL) => buffer[c] = << >>

\* The call has received two newlines and the start of a third line, which
\* is what its buffer holds; before that, its buffer was emptied by a chunk
\* that ended with a newline.
C30_Witness ==
  /\ Decoding(1) /\ pc[1] = "awaitChunk"
  /\ Len(SelectSeq(ReceivedBytes(1), LAMBDA b : b = NL)) = 2
  /\ wire[1][pos[1]] # NL
  /\ buffer[1] # << >> /\ events[1] # << >>

\* The last byte the call has received is a newline, and its buffer is empty.
C30_WitnessEmpty ==
  /\ Decoding(1) /\ pc[1] = "awaitChunk"
  /\ pos[1] > 0 /\ wire[1][pos[1]] = NL /\ buffer[1] = << >>

====
